---- MODULE Spec2Model ----
(***************************************************************************)
(* MCPConsole: the connection and authentication coordination layer.       *)
(*                                                                         *)
(* MCPCoordinator (coordinator.ts) drives OAuthHandler (oauth-handler.ts), *)
(* TransportManager (transport-manager.ts) and ConnectionManager           *)
(* (connection-manager.ts).  Every call of connect, disconnect or callTool *)
(* is a process; a step of a process runs from one await that performs     *)
(* I/O (discovery, registration, token refresh, client.connect,            *)
(* client.close, client.callTool) to the next, since only there can other  *)
(* calls run on the single JavaScript thread.  Spec runs one caller of     *)
(* connect() beside callers of disconnect(), callTool() and set-token.     *)
(*                                                                         *)
(* The registry is a Map from server id to a connection OBJECT; objects    *)
(* are mutated in place (registerConnectionState) and are held by the      *)
(* calls that created them, so the model keeps a heap of objects.          *)
(***************************************************************************)
EXTENDS Integers, FiniteSets, Sequences, TLC

\* ------------------------------------------------------------------------
\* Bounds and program constants
\* ------------------------------------------------------------------------
ExpiryMarginMs == 60000        \* oauth-handler.ts:259
DefaultExpiresIn == 3600       \* oauth-handler.ts:33
MsPerSecond == 1000            \* oauth-handler.ts:34

ServerOrder == <<"s1", "s2">>
ProcOrder == <<"p1", "p2">>
ServerIds == {ServerOrder[i] : i \in 1 .. Len(ServerOrder)}
Procs == {ProcOrder[i] : i \in 1 .. Len(ProcOrder)}
\* The server id the calls are made for where one id is followed
Targets == {ServerOrder[1]}
MaxObj == Len(ServerOrder) + Len(ProcOrder) + 1
ObjIds == 1 .. MaxObj
NoObj == 0

None == "none"                 \* undefined / null

\* ------------------------------------------------------------------------
\* Error messages.  The code classifies errors by substring tests on the
\* message, so a message is the set of the tested substrings it contains.
\* ------------------------------------------------------------------------
NoMsg == {"<no error>"}
\* the messages of the errors of JSON.parse and of `new URL`
SyntaxErrorMsg == {"Unexpected token", "in JSON"}
InvalidUrlMsg == {"Invalid URL"}
Includes(msg, s) == s \in msg

\* messages a failed client.connect() can carry
HandshakeMsgs ==
    { {"404"},                 \* "SSE error: Non-200 status code (404)"
      {"401"},                 \* "SSE error: Non-200 status code (401)"
      {"401", "authorize"},    \* "HTTP 401 Unauthorized"
      {"401", "404"},          \* a 401 whose text also holds 404
      {} }                     \* "fetch failed", timeouts, ...

\* A connect URL is built from an authorization endpoint and a client id.
NoUrl == [authUrl |-> None, clientId |-> None]

\* An error is a message and an optional connectUrl property.
NoErr == [msg |-> NoMsg, connectUrl |-> NoUrl]
MkErr(msg, url) == [msg |-> msg, connectUrl |-> url]

\* TransportManager.isSSEConnectionError
isSSEConnectionError(msg) ==
    \/ Includes(msg, "405")
    \/ Includes(msg, "404")
    \/ Includes(msg, "202")
    \/ Includes(msg, "Stats")
    \/ Includes(msg, "Unexpected token")

\* TransportManager.isAuthenticationError
isAuthenticationError(msg) ==
    Includes(msg, "401") \/ Includes(msg, "Authentication failed")

\* MCPCoordinator.connect, catch block: isAuthError
\* (every message of the model is a non-empty string)
isAuthError(err) ==
    \/ Includes(err.msg, "authorize")
    \/ Includes(err.msg, "token expired")
    \/ err.connectUrl # NoUrl

\* ------------------------------------------------------------------------
\* Server configuration (the parsed server.config) and discovery results
\* ------------------------------------------------------------------------
\* server.config: parses = FALSE stands for a text JSON.parse rejects,
\* urlValid = FALSE for a config.url that `new URL` rejects, and
\* has = FALSE for "config.oauth2 is undefined".
NoOAuth == [parses |-> TRUE, urlValid |-> TRUE,
            has |-> FALSE, tokenUrl |-> None, authUrl |-> None,
            clientId |-> None, autoDiscover |-> FALSE]

Configured == [parses |-> TRUE, urlValid |-> TRUE,
               has |-> TRUE, tokenUrl |-> "cfgToken", authUrl |-> "cfgAuth",
               clientId |-> "cfgClient", autoDiscover |-> FALSE]

Malformed == [NoOAuth EXCEPT !.parses = FALSE]

Configs ==
    { NoOAuth,
      Configured,
      [NoOAuth EXCEPT !.has = TRUE, !.autoDiscover = TRUE],
      [Configured EXCEPT !.tokenUrl = None],
      [Configured EXCEPT !.authUrl = None, !.clientId = None],
      Malformed,
      [NoOAuth EXCEPT !.urlValid = FALSE],
      [Configured EXCEPT !.urlValid = FALSE] }

\* OAuthDiscoveryResult; found = FALSE stands for null.
NoDiscovery == [found |-> FALSE, tokenUrl |-> None, authUrl |-> None,
                registrationUrl |-> None, requiresAuth |-> FALSE]

Discoveries ==
    { NoDiscovery,
      [found |-> TRUE, tokenUrl |-> "discToken", authUrl |-> "discAuth",
       registrationUrl |-> None, requiresAuth |-> TRUE],
      [found |-> TRUE, tokenUrl |-> "discToken", authUrl |-> "discAuth",
       registrationUrl |-> "discReg", requiresAuth |-> TRUE],
      [found |-> TRUE, tokenUrl |-> None, authUrl |-> None,
       registrationUrl |-> None, requiresAuth |-> TRUE],
      [found |-> TRUE, tokenUrl |-> "discToken", authUrl |-> "discAuth",
       registrationUrl |-> "discReg", requiresAuth |-> FALSE] }

\* registerDynamicClient: the registered client id, or None for null
Registrations == {None, "dcrClient"}

\* What the POST to the registration endpoint can end in: a rejection, a
\* status that is not ok, an ok body that does not parse, an ok body that is
\* null, an ok body without client_id, an ok body with one
RegistrationOutcomes == {"rejected", "notOk", "unparsable", "null",
                         "noClientId", "registered"}

\* registerDynamicClient: the clientId of its result, None for null and
\* for a result whose clientId is undefined; every exception of the body
\* is caught
registerDynamicClient(outcome) ==
    IF outcome = "registered" THEN "dcrClient" ELSE None

\* expires_in of a token response, in seconds; 0 stands for "absent".
\* A token of 60 seconds is within the expiry margin from the start, one of
\* 120 seconds can be reused.
ExpiresIns == {60, 120}

\* tokenData as POST /api/mcp/set-token passes it to setOAuth2Token; a
\* refresh_token of None stands for "absent".
TokenDatas == [access_token : {"at"}, expires_in : ExpiresIns,
               refresh_token : {None, "rt"}]

\* ------------------------------------------------------------------------
\* State
\* ------------------------------------------------------------------------
VARIABLES
    connections,   \* ConnectionManager.connections: server id -> object
    heap,          \* the MCPConnection objects
    oauth2Tokens,  \* OAuthHandler.oauth2Tokens: server id -> token
    now,           \* Date.now()
    proc,          \* the calls in flight
    call,          \* the calls of getOAuth2TokenHeader taken on their own
    eval           \* the function evaluated on its own: input and result

vars == <<connections, heap, oauth2Tokens, now, proc, call, eval>>

FreeObj == [status |-> "free", error |-> NoMsg, connectUrl |-> NoUrl,
            client |-> None]

NoToken == [present |-> FALSE, access_token |-> None, expires_at |-> 0,
            refresh_token |-> None]

\* A call that is not running.
\* pc, id, config, requiresAuth (discoveredAuth?.requiresAuth),
\* primaryAuthError, connectError, fallbackAuthError, fallbackError and obj
\* (the local `connection`) are the locals of the call; result and error
\* are what the caller receives; handshakes (client.connect calls),
\* fallbacks, transports (transports created) and requests (other remote
\* calls: discovery, registration, token refresh, close, tool call) count
\* what the call did.
\* closing holds, per server id, the connection whose close() a
\* closeAllConnections awaits; ahead, queried and tools are the entries the
\* loop of listTools has yet to reach, the servers it has asked and the
\* servers whose tools it has collected.
Idle == [pc |-> "idle", op |-> None, id |-> None, config |-> NoOAuth,
         requiresAuth |-> FALSE, primaryAuthError |-> NoErr,
         connectError |-> NoErr, fallbackAuthError |-> NoErr,
         fallbackError |-> NoErr, obj |-> NoObj,
         result |-> None, error |-> NoErr,
         handshakes |-> 0, fallbacks |-> 0, transports |-> 0, requests |-> 0,
         closing |-> [id \in ServerIds |-> NoObj],
         ahead |-> {}, queried |-> {}, tools |-> {}]

\* The callers of getOAuth2TokenHeader that are followed request by request
Callers == {"c1", "c2"}

\* A response of the token endpoint that has not arrived
NoResponse == [kind |-> None, status |-> 0, invalid_client |-> FALSE,
               tokenData |-> [access_token |-> None, expires_in |-> 0,
                              refresh_token |-> None]]

\* The locals of one call of getOAuth2TokenHeader and of the refreshToken it
\* awaits: the server id, oauth2Config.clientSecret (set or not), the
\* refresh token read from the cached record, the POSTs sent so far, the
\* first response, the TokenSet of the successful response, and the outcome
\* (the header returned, or the error of refreshToken behind a rejection);
\* concurrent notes that another call for the same id was awaiting its
\* refresh when this one was made.
IdleCall ==
    [pc |-> "idle", id |-> None, clientSecret |-> FALSE,
     refreshToken |-> None, posts |-> <<>>, first |-> NoResponse,
     tokenData |-> NoResponse.tokenData, path |-> None, header |-> None,
     threw |-> FALSE, refreshError |-> NoMsg, concurrent |-> FALSE]

\* The coordinator after construction
InitCoordinator ==
    /\ connections = [id \in ServerIds |-> NoObj]
    /\ heap = [o \in ObjIds |-> FreeObj]
    /\ oauth2Tokens = [id \in ServerIds |-> NoToken]
    /\ now = 0
    /\ proc = [p \in Procs |-> Idle]
    /\ call = [c \in Callers |-> IdleCall]

\* No function is evaluated on its own
NoEval == [f |-> None]

Init == InitCoordinator /\ eval = NoEval

\* ------------------------------------------------------------------------
\* ConnectionManager
\* ------------------------------------------------------------------------
\* A world is the shared state as one call sees and changes it within a
\* step, together with the locals of that call (me).
World(p) == [heap |-> heap, connections |-> connections,
             oauth2Tokens |-> oauth2Tokens, me |-> proc[p]]

\* a fresh object: the lowest free cell of the heap
Alloc(h) ==
    CHOOSE o \in ObjIds :
        h[o] = FreeObj /\ \A q \in ObjIds : q < o => h[q] # FreeObj

\* ConnectionManager.getConnectionStatus
getConnectionStatus(conns, h, id) ==
    IF conns[id] # NoObj THEN h[conns[id]].status ELSE "disconnected"

\* ConnectionManager.registerConnectionState
registerConnectionState(w, id, status, error, connectUrl) ==
    LET existing == w.connections[id] IN
    IF existing # NoObj
    THEN [w EXCEPT !.heap[existing].status = status,
                   !.heap[existing].error = error,
                   !.heap[existing].connectUrl = connectUrl]
    ELSE LET o == Alloc(w.heap) IN
         [w EXCEPT !.heap[o] = [status |-> status, error |-> error,
                                connectUrl |-> connectUrl, client |-> None],
                   !.connections[id] = o]

\* The call ends: result is "ok" (returned) or "threw" (rejected with err).
Finish(me, result, err) ==
    [me EXCEPT !.pc = "done", !.result = result, !.error = err,
               !.obj = NoObj]

\* ConnectionManager.establishConnection up to `await client.connect(...)`.
\* When the record is already connected the existing connection is
\* returned, and connect() has nothing left to do but return.
establishConnection(w, id, nextpc) ==
    LET existing == w.connections[id] IN
    IF existing # NoObj /\ w.heap[existing].status = "connected"
    THEN [w EXCEPT !.me = Finish(w.me, "ok", NoErr)]
    ELSE LET o == Alloc(w.heap) IN
         [w EXCEPT !.heap[o] = [status |-> "connecting", error |-> NoMsg,
                                connectUrl |-> NoUrl,
                                client |-> "connecting"],
                   !.connections[id] = o,
                   !.me.obj = o,
                   !.me.pc = nextpc,
                   !.me.handshakes = @ + 1]

\* client.connect() resolved, the object not put back into the registry
handshakeSucceededUnregistered(w, id) ==
    LET o == w.me.obj IN
    [w EXCEPT !.heap[o].status = "connected",
              !.heap[o].client = IF @ = "closed" THEN "closed" ELSE "open"]

\* ConnectionManager.establishConnection, client.connect() resolved
handshakeSucceeded(w, id) ==
    LET o == w.me.obj IN
    [w EXCEPT !.heap[o].status = "connected",
              !.heap[o].client = IF @ = "closed" THEN "closed" ELSE "open",
              !.connections[id] = o]

\* ConnectionManager.establishConnection, client.connect() rejected
handshakeFailed(w, id, msg) ==
    LET o == w.me.obj IN
    [w EXCEPT !.heap[o].status = "error",
              !.heap[o].error = msg,
              !.heap[o].client = IF @ = "closed" THEN "closed" ELSE "failed",
              !.connections[id] = o]

\* ------------------------------------------------------------------------
\* OAuthHandler: the token vault
\* ------------------------------------------------------------------------
\* OAuthHandler.setOAuth2Token
setOAuth2Token(tokens, id, tokenData, t) ==
    [tokens EXCEPT ![id] =
        [present |-> TRUE,
         access_token |-> tokenData.access_token,
         expires_at |-> t + (IF tokenData.expires_in # 0
                             THEN tokenData.expires_in
                             ELSE DefaultExpiresIn) * MsPerSecond,
         refresh_token |-> tokenData.refresh_token]]

\* OAuthHandler.refreshToken: the TokenSet it returns for the body of a
\* successful response
tokenSet(tokenData, refreshToken) ==
    [access_token |-> tokenData.access_token,
     expires_in |-> IF tokenData.expires_in # 0 THEN tokenData.expires_in
                    ELSE DefaultExpiresIn,
     refresh_token |-> IF tokenData.refresh_token # None
                       THEN tokenData.refresh_token
                       ELSE refreshToken]

\* getOAuth2TokenHeader with the margin's boundary counted as valid
tokenHeaderPathInclusive(tokens, id, oauth2Config, t) ==
    LET cached == tokens[id] IN
    IF cached.present /\ cached.expires_at >= t + ExpiryMarginMs
    THEN "cached"
    ELSE IF cached.present /\ cached.refresh_token # None
            /\ oauth2Config.tokenUrl # None
         THEN "refresh"
         ELSE "fail"

\* OAuthHandler.getOAuth2TokenHeader: which of its three paths is taken
tokenHeaderPath(tokens, id, oauth2Config, t) ==
    LET cached == tokens[id] IN
    IF cached.present /\ cached.expires_at > t + ExpiryMarginMs
    THEN "cached"
    ELSE IF cached.present /\ cached.refresh_token # None
            /\ oauth2Config.tokenUrl # None
         THEN "refresh"
         ELSE "fail"

\* the error of getOAuth2TokenHeader with a connect URL built from the
\* authorization endpoint alone
authRequiredErrorAnyClient(oauth2Config) ==
    MkErr({"authorize", "token expired"},
          IF oauth2Config.authUrl # None
          THEN [authUrl |-> oauth2Config.authUrl,
                clientId |-> oauth2Config.clientId]
          ELSE NoUrl)

\* OAuthHandler.getOAuth2TokenHeader: the error it throws
authRequiredError(oauth2Config) ==
    MkErr({"authorize", "token expired"},
          IF oauth2Config.authUrl # None /\ oauth2Config.clientId # None
          THEN [authUrl |-> oauth2Config.authUrl,
                clientId |-> oauth2Config.clientId]
          ELSE NoUrl)

\* ------------------------------------------------------------------------
\* MCPCoordinator.connect, between its awaits
\* ------------------------------------------------------------------------
\* the catch block rethrowing without recording
failConnectUnrecorded(w, id, err) ==
    [w EXCEPT !.me = Finish(w.me, "threw", err)]

\* the catch block recording every failure as an error
failConnectAsError(w, id, err) ==
    LET w1 == registerConnectionState(w, id, "error", err.msg, err.connectUrl)
    IN [w1 EXCEPT !.me = Finish(w1.me, "threw", err)]

\* the catch block: record the failure, then rethrow it
failConnect(w, id, err) ==
    LET w1 == registerConnectionState(w, id,
                  IF isAuthError(err) THEN "auth_required" ELSE "error",
                  err.msg, err.connectUrl)
    IN [w1 EXCEPT !.me = Finish(w1.me, "threw", err)]

\* createTransport, which throws on a config.url that is no URL, then
\* establishConnection with the transport.  discoveredAuth and
\* config.oauth2.autoDiscover are not read from here on.
startPrimary(w, id) ==
    IF ~w.me.config.urlValid
    THEN failConnect(w, id, MkErr(InvalidUrlMsg, NoUrl))
    ELSE establishConnection([w EXCEPT !.me.transports = @ + 1,
                                       !.me.requiresAuth = FALSE,
                                       !.me.config.autoDiscover = FALSE],
                             id, "handshake")

\* going on to the transport whatever the outcome of the header step
afterHeadersProceed(w, id) == startPrimary(w, id)

\* "If auth is configured but we could not obtain a token, do not proceed"
afterHeaders(w, id) ==
    IF /\ w.me.primaryAuthError # NoErr
       /\ (w.me.requiresAuth \/ w.me.config.has)
    THEN failConnect(w, id, w.me.primaryAuthError)
    ELSE startPrimary(w, id)

\* "Prepare headers" / "Handle OAuth2 authentication"
prepareHeaders(w, id, t) ==
    LET cfg == w.me.config
        path == tokenHeaderPath(w.oauth2Tokens, id, cfg, t)
    IN IF cfg.has /\ cfg.tokenUrl # None
       THEN CASE path = "cached" -> afterHeaders(w, id)
              [] path = "refresh" ->
                     [w EXCEPT !.me.pc = "refreshing", !.me.requests = @ + 1]
              [] OTHER ->
                     afterHeaders([w EXCEPT !.me.primaryAuthError =
                                                authRequiredError(cfg)], id)
       ELSE afterHeaders(w, id)

\* createStatelessHTTPTransport, then establishConnection with it
establishFallback(w, id) ==
    establishConnection([w EXCEPT !.me.transports = @ + 1], id,
                        "fallbackHandshake")

\* "Fallback to stateless HTTP if SSE fails": re-prepare the headers
beginFallback(w, id, t) ==
    LET cfg == w.me.config
        path == tokenHeaderPath(w.oauth2Tokens, id, cfg, t)
        w1 == [w EXCEPT !.me.fallbacks = @ + 1]
    IN IF cfg.has
       THEN CASE path = "cached" -> establishFallback(w1, id)
              [] path = "refresh" ->
                     [w1 EXCEPT !.me.pc = "fallbackRefreshing",
                                !.me.requests = @ + 1]
              [] OTHER ->
                     establishFallback(
                         [w1 EXCEPT !.me.fallbackAuthError =
                                        authRequiredError(cfg)], id)
       ELSE establishFallback(w1, id)

\* the catch of the primary establishConnection with no classification:
\* every failure falls back
afterPrimaryFailureAlwaysFallback(w0, id, msg, t) ==
    beginFallback([w0 EXCEPT !.me.connectError = MkErr(msg, NoUrl)], id, t)

\* the catch of the primary establishConnection
afterPrimaryFailure(w0, id, msg, t) ==
    LET w == [w0 EXCEPT !.me.connectError = MkErr(msg, NoUrl)] IN
    IF w.me.primaryAuthError # NoErr /\ isAuthenticationError(msg)
    THEN failConnect(w, id, w.me.primaryAuthError)
    ELSE IF isSSEConnectionError(msg)
         THEN beginFallback(w, id, t)
         ELSE failConnect(w, id, w.me.connectError)

\* the catch of the fallback establishConnection raising the handshake
\* error whatever was suppressed
afterFallbackFailurePlain(w0, id, msg) ==
    LET w == [w0 EXCEPT !.me.fallbackError = MkErr(msg, NoUrl)] IN
    failConnect(w, id, w.me.fallbackError)

\* the catch of the fallback establishConnection
afterFallbackFailure(w0, id, msg) ==
    LET w == [w0 EXCEPT !.me.fallbackError = MkErr(msg, NoUrl)] IN
    IF w.me.fallbackAuthError # NoErr /\ isAuthenticationError(msg)
    THEN failConnect(w, id, w.me.fallbackAuthError)
    ELSE failConnect(w, id, w.me.fallbackError)

\* "Discovery Phase": is discoverOAuthConfiguration called?
attemptsDiscovery(oauthConfig) ==
    LET needsDiscovery == \/ oauthConfig.tokenUrl = None
                          \/ oauthConfig.authUrl = None
                          \/ oauthConfig.clientId = None
                          \/ oauthConfig.autoDiscover
        shouldAttemptDiscovery == oauthConfig.has \/ needsDiscovery
    IN shouldAttemptDiscovery /\ (~oauthConfig.has \/ needsDiscovery)

\* "Auto-configuring OAuth": config.oauth2 after the discovery phase
applyDiscovery(oauthConfig, discoveredAuth) ==
    LET shouldApplyDiscovery ==
            /\ discoveredAuth.found
            /\ (discoveredAuth.requiresAuth \/ oauthConfig.autoDiscover)
    IN IF shouldApplyDiscovery
       THEN [oauthConfig EXCEPT !.has = TRUE,
                                !.tokenUrl = discoveredAuth.tokenUrl,
                                !.authUrl = discoveredAuth.authUrl]
       ELSE oauthConfig

\* "Dynamic Client Registration Phase": is registerDynamicClient called?
attemptsRegistration(oauth2, discoveredAuth) ==
    /\ discoveredAuth.found
    /\ (discoveredAuth.requiresAuth \/ oauth2.autoDiscover)
    /\ discoveredAuth.registrationUrl # None
    /\ oauth2.clientId = None

\* ------------------------------------------------------------------------
\* Steps
\* ------------------------------------------------------------------------
\* The references to objects: the registry's, then the calls' locals.
Roots(conns, pr) ==
    [i \in 1 .. Len(ServerOrder) |-> conns[ServerOrder[i]]]
        \o [i \in 1 .. Len(ProcOrder) |-> pr[ProcOrder[i]].obj]
        \o [i \in 1 .. Len(ProcOrder) * Len(ServerOrder) |->
               pr[ProcOrder[((i - 1) \div Len(ServerOrder)) + 1]]
                   .closing[ServerOrder[((i - 1) % Len(ServerOrder)) + 1]]]

\* An object is known only through the references to it, so the heap is
\* kept in one layout: the objects in the order of their first reference.
\* An object that no reference reaches is gone.
RECURSIVE FirstReferences(_, _)
FirstReferences(roots, i) ==
    IF i = 0 THEN <<>>
    ELSE LET before == FirstReferences(roots, i - 1)
         IN IF \/ roots[i] = NoObj
               \/ \E j \in 1 .. Len(before) : before[j] = roots[i]
            THEN before
            ELSE Append(before, roots[i])

Place(order, o) ==
    IF o = NoObj THEN NoObj
    ELSE CHOOSE n \in 1 .. Len(order) : order[n] = o

\* The keys of the connections Map
Keys(conns) == {id \in ServerIds : conns[id] # NoObj}

\* The iterator of a listTools loop that is under way follows the Map: an
\* entry that is deleted is no longer ahead of it, an entry that is added
\* is.  (The order of the entries ahead is left open.)
Ahead(me, before, after) ==
    IF me.pc = "listing"
    THEN (me.ahead \cap Keys(after)) \cup (Keys(after) \ Keys(before))
    ELSE me.ahead

\* p's step ends: the world it leaves behind becomes the registry, the
\* vault and the calls
CommitRegistry(p, w) ==
    LET pr == [proc EXCEPT ![p] = w.me]
        roots == Roots(w.connections, pr)
        order == FirstReferences(roots, Len(roots))
    IN /\ connections' = [id \in ServerIds |-> Place(order, w.connections[id])]
       /\ oauth2Tokens' = w.oauth2Tokens
       /\ proc' = [q \in Procs |->
                      [pr[q] EXCEPT
                          !.obj = Place(order, @),
                          !.closing = [id \in ServerIds |->
                                          Place(order, @[id])],
                          !.ahead = Ahead(pr[q], connections,
                                          w.connections)]]
       /\ heap' = [n \in ObjIds |->
                      IF n <= Len(order) THEN w.heap[order[n]] ELSE FreeObj]

\* p's step ends: the world it leaves behind becomes the state
Commit(p, w) == CommitRegistry(p, w) /\ UNCHANGED <<now, call, eval>>

\* The caller of a call that has ended runs on before anything else does.
Settled == \A q \in Procs : proc[q].pc # "done"

\* connect(server) without the already-connected check
connectBeginUnchecked(w, id, cfg, t) ==
    LET w0 == [w EXCEPT !.me = [Idle EXCEPT !.op = "connect", !.id = id,
                                            !.config = cfg]]
    IN IF attemptsDiscovery(cfg)
       THEN [w0 EXCEPT !.me.pc = "discovering", !.me.requests = @ + 1]
       ELSE prepareHeaders(w0, id, t)

\* connect(server) is called: the already-connected check, JSON.parse of
\* server.config outside the try, then discovery if it is needed (its
\* `new URL` throws into the catch of connect), else straight on to the
\* headers
connectBegin(w, id, cfg, t) ==
    LET w0 == [w EXCEPT !.me = [Idle EXCEPT !.op = "connect", !.id = id,
                                            !.config = cfg]]
    IN IF getConnectionStatus(w.connections, w.heap, id) = "connected"
       THEN [w0 EXCEPT !.me = Finish(w0.me, "ok", NoErr)]
       ELSE IF ~cfg.parses
       THEN [w0 EXCEPT !.me = Finish(w0.me, "threw",
                                     MkErr(SyntaxErrorMsg, NoUrl))]
       ELSE IF attemptsDiscovery(cfg)
       THEN IF cfg.urlValid
            THEN [w0 EXCEPT !.me.pc = "discovering", !.me.requests = @ + 1]
            ELSE failConnect(w0, id, MkErr(InvalidUrlMsg, NoUrl))
       ELSE prepareHeaders(w0, id, t)

ConnectStart(p, id, cfg) ==
    /\ Settled
    /\ proc[p].pc = "idle"
    /\ Commit(p, connectBegin(World(p), id, cfg, now))

\* discoverOAuthConfiguration resolved with discoveredAuth
discoveryDone(w, discoveredAuth, t) ==
    LET oauth2 == applyDiscovery(w.me.config, discoveredAuth)
        w1 == [w EXCEPT !.me.config = oauth2,
                        !.me.requiresAuth = discoveredAuth.requiresAuth]
    IN IF attemptsRegistration(oauth2, discoveredAuth)
       THEN [w1 EXCEPT !.me.pc = "registering", !.me.requests = @ + 1]
       ELSE prepareHeaders(w1, w.me.id, t)

DiscoveryDone(p, discoveredAuth) ==
    /\ Settled
    /\ proc[p].pc = "discovering"
    /\ Commit(p, discoveryDone(World(p), discoveredAuth, now))

\* a failed registration ending connect()
registrationDoneFatal(w, clientId, t) ==
    IF clientId # None
    THEN prepareHeaders([w EXCEPT !.me.config.clientId = clientId],
                        w.me.id, t)
    ELSE failConnect(w, w.me.id, MkErr({"DCR Failed"}, NoUrl))

\* registerDynamicClient resolved with clientCreds (None for null)
registrationDone(w, clientId, t) ==
    LET w1 == IF clientId # None
              THEN [w EXCEPT !.me.config.clientId = clientId]
              ELSE w
    IN prepareHeaders(w1, w.me.id, t)

RegistrationDone(p, clientId) ==
    /\ Settled
    /\ proc[p].pc = "registering"
    /\ Commit(p, registrationDone(World(p), clientId, now))

\* getOAuth2TokenHeader: refreshToken, taken as one remote call, resolved
\* (ok) or rejected.  The response carries no refresh token, so the one
\* that was sent is kept.
refreshDone(w, ok, expires_in, t) ==
    LET id == w.me.id
        tokenData == [access_token |-> "at", expires_in |-> expires_in,
                      refresh_token |-> None]
    IN IF ok THEN [w EXCEPT !.oauth2Tokens =
                       setOAuth2Token(w.oauth2Tokens, id,
                                      tokenSet(tokenData, "rt"), t)]
       ELSE w

RefreshDone(p, ok, expires_in) ==
    /\ Settled
    /\ proc[p].pc = "refreshing"
    /\ LET w == refreshDone(World(p), ok, expires_in, now)
           w1 == IF ok THEN w
                 ELSE [w EXCEPT !.me.primaryAuthError =
                                    authRequiredError(w.me.config)]
       IN Commit(p, afterHeaders(w1, w.me.id))

FallbackRefreshDone(p, ok, expires_in) ==
    /\ Settled
    /\ proc[p].pc = "fallbackRefreshing"
    /\ LET w == refreshDone(World(p), ok, expires_in, now)
           w1 == IF ok THEN w
                 ELSE [w EXCEPT !.me.fallbackAuthError =
                                    authRequiredError(w.me.config)]
       IN Commit(p, establishFallback(w1, w.me.id))

\* client.connect(transport) of the primary transport settled
HandshakeDone(p, ok, msg) ==
    /\ Settled
    /\ proc[p].pc = "handshake"
    /\ LET w == World(p)
           id == w.me.id
       IN IF ok
          THEN LET w1 == handshakeSucceeded(w, id)
               IN Commit(p, [w1 EXCEPT !.me = Finish(w1.me, "ok", NoErr)])
          ELSE Commit(p, afterPrimaryFailure(handshakeFailed(w, id, msg),
                                             id, msg, now))

\* client.connect(transport) of the stateless transport settled
FallbackHandshakeDone(p, ok, msg) ==
    /\ Settled
    /\ proc[p].pc = "fallbackHandshake"
    /\ LET w == World(p)
           id == w.me.id
       IN IF ok
          THEN LET w1 == handshakeSucceeded(w, id)
               IN Commit(p, [w1 EXCEPT !.me = Finish(w1.me, "ok", NoErr)])
          ELSE Commit(p, afterFallbackFailure(handshakeFailed(w, id, msg),
                                              id, msg))

\* disconnect that leaves the token in the vault
dropConnectionKeepToken(w, id) ==
    [w EXCEPT !.connections[id] = NoObj,
              !.me = Finish(w.me, "ok", NoErr)]

\* ConnectionManager.closeConnection after the close: drop the record;
\* then MCPCoordinator.disconnect clears the token
dropConnection(w, id) ==
    [w EXCEPT !.connections[id] = NoObj,
              !.oauth2Tokens[id] = NoToken,
              !.me = Finish(w.me, "ok", NoErr)]

\* disconnect(serverId) is called
disconnectBegin(w, id) ==
    LET connection == w.connections[id]
        w0 == [w EXCEPT !.me = [Idle EXCEPT !.op = "disconnect", !.id = id]]
    IN IF connection # NoObj /\ w.heap[connection].client # None
       THEN [w0 EXCEPT !.me.pc = "closing", !.me.obj = connection,
                       !.me.requests = @ + 1]
       ELSE dropConnection(w0, id)

DisconnectStart(p, id) ==
    /\ Settled
    /\ proc[p].pc = "idle"
    /\ Commit(p, disconnectBegin(World(p), id))

\* connection.client.close() settled; a failure is caught and logged
CloseDone(p, closed) ==
    /\ Settled
    /\ proc[p].pc = "closing"
    /\ LET w == World(p)
           o == w.me.obj
           w1 == IF closed THEN [w EXCEPT !.heap[o].client = "closed"]
                 ELSE w
       IN Commit(p, dropConnection(w1, w.me.id))

\* callTool that rejects an absent record only
callToolBeginAbsentOnly(w, id) ==
    LET connection == w.connections[id]
        w0 == [w EXCEPT !.me = [Idle EXCEPT !.op = "callTool", !.id = id]]
    IN IF connection = NoObj
       THEN [w0 EXCEPT !.me = Finish(w0.me, "threw",
                                     MkErr({"is not connected"}, NoUrl))]
       ELSE [w0 EXCEPT !.me.pc = "calling", !.me.requests = @ + 1]

\* callTool(toolName, args, serverId) is called
callToolBegin(w, id) ==
    LET connection == w.connections[id]
        w0 == [w EXCEPT !.me = [Idle EXCEPT !.op = "callTool", !.id = id]]
    IN IF \/ connection = NoObj
          \/ w.heap[connection].status # "connected"
          \/ w.heap[connection].client = None
       THEN [w0 EXCEPT !.me = Finish(w0.me, "threw",
                                     MkErr({"is not connected"}, NoUrl))]
       ELSE [w0 EXCEPT !.me.pc = "calling", !.me.requests = @ + 1]

CallToolStart(p, id) ==
    /\ Settled
    /\ proc[p].pc = "idle"
    /\ Commit(p, callToolBegin(World(p), id))

\* connection.client.callTool(...) settled
CallToolDone(p, ok) ==
    /\ Settled
    /\ proc[p].pc = "calling"
    /\ LET w == World(p)
       IN Commit(p, [w EXCEPT !.me = Finish(w.me,
                                  IF ok THEN "ok" ELSE "threw",
                                  IF ok THEN NoErr ELSE MkErr({}, NoUrl))])

\* the caller has received the outcome of the call
Return(p) ==
    /\ proc[p].pc = "done"
    /\ proc' = [proc EXCEPT ![p] = Idle]
    /\ UNCHANGED <<connections, heap, oauth2Tokens, now, call, eval>>

\* POST /api/mcp/set-token: mcpCoordinator.setOAuth2Token
SetToken(id, tokenData) ==
    /\ Settled
    /\ oauth2Tokens' = setOAuth2Token(oauth2Tokens, id, tokenData, now)
    /\ UNCHANGED <<connections, heap, now, proc, call, eval>>

\* The callers that call connect(); every caller calls disconnect() and
\* callTool().
Connectors == {ProcOrder[1]}

Next ==
    \/ \E p \in Connectors, id \in Targets, cfg \in Configs :
           ConnectStart(p, id, cfg)
    \/ \E p \in Procs, d \in Discoveries : DiscoveryDone(p, d)
    \/ \E p \in Procs, outcome \in RegistrationOutcomes :
           RegistrationDone(p, registerDynamicClient(outcome))
    \/ \E p \in Procs, ok \in BOOLEAN, e \in ExpiresIns :
           RefreshDone(p, ok, e)
    \/ \E p \in Procs, ok \in BOOLEAN, e \in ExpiresIns :
           FallbackRefreshDone(p, ok, e)
    \/ \E p \in Procs, ok \in BOOLEAN, msg \in HandshakeMsgs :
           HandshakeDone(p, ok, msg)
    \/ \E p \in Procs, ok \in BOOLEAN, msg \in HandshakeMsgs :
           FallbackHandshakeDone(p, ok, msg)
    \/ \E p \in Procs, id \in Targets : DisconnectStart(p, id)
    \/ \E p \in Procs, closed \in BOOLEAN : CloseDone(p, closed)
    \/ \E p \in Procs, id \in Targets : CallToolStart(p, id)
    \/ \E p \in Procs, ok \in BOOLEAN : CallToolDone(p, ok)
    \/ \E p \in Procs : Return(p)
    \/ \E id \in Targets, tokenData \in TokenDatas :
           SetToken(id, tokenData)

Spec == Init /\ [][Next]_vars

\* ------------------------------------------------------------------------
\* The token vault on its own: getOAuth2TokenHeader and the refreshToken it
\* awaits, request by request, under a clock that moves
\* ------------------------------------------------------------------------
\* The clock moves in steps of the expiry margin, MaxTicks times at most
TickMs == ExpiryMarginMs
MaxTicks == 2

\* oauth2Config as getOAuth2TokenHeader and refreshToken read it: the token
\* endpoint and whether a client secret is configured
VaultConfigs == [tokenUrl : {None, "tokenUrl"}, clientSecret : BOOLEAN]

\* tokenData as POST /api/mcp/set-token passes it on; expires_in 0 and
\* refresh_token None stand for "absent"
VaultTokenDatas == [access_token : {"a0"}, expires_in : {0, 60, 120},
                    refresh_token : {None, "r1"}]

\* The access token the authorization server issues on a refresh request
\* of caller c: a fresh one per request
Issued(c) == IF c = "c1" THEN "a1" ELSE "a2"

\* Response.ok
responseOk(response) == response.status \in 200..299

\* What one fetch of the token endpoint can end in: a rejection, a 401, a
\* 400 with or without invalid_client in its text, or a 200 whose body may
\* omit expires_in and refresh_token
Responses(c) ==
    {[NoResponse EXCEPT !.kind = "rejected"]}
    \cup {[NoResponse EXCEPT !.kind = "response", !.status = f[1],
                             !.invalid_client = f[2]] :
          f \in {<<401, FALSE>>, <<400, TRUE>>, <<400, FALSE>>}}
    \cup {[kind |-> "response", status |-> 200, invalid_client |-> FALSE,
           tokenData |-> [access_token |-> Issued(c), expires_in |-> e,
                          refresh_token |-> r]] :
          e \in {0, 120}, r \in {None, "r2"}}

TokenRefreshFailedMsg == {"Token refresh failed"}
FetchFailedMsg == {"fetch failed"}

\* refreshToken: the first POST; the Authorization header is set when a
\* client secret is configured
firstPost(clientSecret) == [basic |-> clientSecret, client_secret |-> FALSE]
\* refreshToken: the second POST, the secret appended to the body and the
\* headers reduced to Content-Type
secondPost == [basic |-> FALSE, client_secret |-> TRUE]

\* the retry taken on any non-ok first response
retriesAlways(clientSecret, response) == ~responseOk(response) /\ clientSecret

\* refreshToken: a non-ok first response leads to the second POST
retries(clientSecret, response) ==
    /\ ~responseOk(response)
    /\ clientSecret
    /\ (response.status = 401 \/ response.invalid_client)

\* getOAuth2TokenHeader(serverId, oauth2Config) is called: the cached
\* token is returned, or refreshToken sends its first POST, or the
\* authorization error is thrown
HeaderStart(c, id, oauth2Config) ==
    /\ Settled
    /\ call[c].pc = "idle"
    /\ LET cached == oauth2Tokens[id]
           path == tokenHeaderPath(oauth2Tokens, id, oauth2Config, now)
           me == [IdleCall EXCEPT
                      !.id = id, !.path = path,
                      !.clientSecret = oauth2Config.clientSecret,
                      !.concurrent =
                          \E d \in Callers \ {c} :
                              /\ call[d].pc \in {"post1", "post2"}
                              /\ call[d].id = id]
       IN call' = [call EXCEPT ![c] =
              CASE path = "cached" ->
                       [me EXCEPT !.pc = "done",
                                  !.header = cached.access_token]
                [] path = "refresh" ->
                       [me EXCEPT !.pc = "post1",
                                  !.refreshToken = cached.refresh_token,
                                  !.posts =
                                      <<firstPost(oauth2Config.clientSecret)>>]
                [] OTHER -> [me EXCEPT !.pc = "done", !.threw = TRUE]]
    /\ UNCHANGED <<connections, heap, oauth2Tokens, now, proc, eval>>

\* the refresh resolved and the header returned, the new token not stored
refreshSucceededUnstored(c, body) ==
    LET tokenData == tokenSet(body, call[c].refreshToken) IN
    /\ UNCHANGED oauth2Tokens
    /\ call' = [call EXCEPT ![c].pc = "done", ![c].tokenData = tokenData,
                            ![c].header = tokenData.access_token]

\* refreshToken returned the TokenSet of a 200: setOAuth2Token and the
\* header of the new token
refreshSucceeded(c, body) ==
    LET tokenData == tokenSet(body, call[c].refreshToken) IN
    /\ oauth2Tokens' = setOAuth2Token(oauth2Tokens, call[c].id, tokenData,
                                      now)
    /\ call' = [call EXCEPT ![c].pc = "done", ![c].tokenData = tokenData,
                            ![c].header = tokenData.access_token]

\* a failed refresh that drops the record it could not refresh
refreshFailedClearing(c, msg) ==
    /\ call' = [call EXCEPT ![c].pc = "done", ![c].threw = TRUE,
                            ![c].refreshError = msg]
    /\ oauth2Tokens' = [oauth2Tokens EXCEPT ![call[c].id] = NoToken]

\* refreshToken threw: the catch of getOAuth2TokenHeader logs it and the
\* authorization error is thrown
refreshFailed(c, msg) ==
    /\ call' = [call EXCEPT ![c].pc = "done", ![c].threw = TRUE,
                            ![c].refreshError = msg]
    /\ UNCHANGED oauth2Tokens

\* The first fetch of refreshToken settled
FirstResponse(c, response) ==
    /\ Settled
    /\ call[c].pc = "post1"
    /\ IF response.kind = "rejected" THEN refreshFailed(c, FetchFailedMsg)
       ELSE IF responseOk(response)
            THEN refreshSucceeded(c, response.tokenData)
            ELSE IF retries(call[c].clientSecret, response)
                 THEN /\ call' = [call EXCEPT
                              ![c].pc = "post2",
                              ![c].first = response,
                              ![c].posts = Append(@, secondPost)]
                      /\ UNCHANGED oauth2Tokens
                 ELSE refreshFailed(c, TokenRefreshFailedMsg)
    /\ UNCHANGED <<connections, heap, now, proc, eval>>

\* The second fetch of refreshToken settled
SecondResponse(c, response) ==
    /\ Settled
    /\ call[c].pc = "post2"
    /\ IF response.kind = "rejected" THEN refreshFailed(c, FetchFailedMsg)
       ELSE IF responseOk(response)
            THEN refreshSucceeded(c, response.tokenData)
            ELSE refreshFailed(c, TokenRefreshFailedMsg)
    /\ UNCHANGED <<connections, heap, now, proc, eval>>

\* The caller of getOAuth2TokenHeader takes the result
HeaderReturn(c) ==
    /\ call[c].pc = "done"
    /\ call' = [call EXCEPT ![c] = IdleCall]
    /\ UNCHANGED <<connections, heap, oauth2Tokens, now, proc, eval>>

\* Date.now() moves on; nothing is scheduled on it
Tick ==
    /\ now < MaxTicks * TickMs
    /\ now' = now + TickMs
    /\ UNCHANGED <<connections, heap, oauth2Tokens, proc, call, eval>>

NextVault ==
    \/ \E c \in Callers, id \in Targets, oauth2Config \in VaultConfigs :
           HeaderStart(c, id, oauth2Config)
    \/ \E c \in Callers : \E response \in Responses(c) :
           FirstResponse(c, response)
    \/ \E c \in Callers : \E response \in Responses(c) :
           SecondResponse(c, response)
    \/ \E c \in Callers : HeaderReturn(c)
    \/ \E id \in Targets, tokenData \in VaultTokenDatas :
           SetToken(id, tokenData)
    \/ \E p \in Connectors, id \in Targets : DisconnectStart(p, id)
    \/ \E p \in Connectors : Return(p)
    \/ Tick

SpecVault == Init /\ [][NextVault]_vars

\* ------------------------------------------------------------------------
\* Every operation of the coordinator, for two server ids, one caller at a
\* time
\* ------------------------------------------------------------------------
\* ConnectionManager.listTools: the loop runs on from where it stands.  It
\* stops at an entry that is connected and has a client, next, to await
\* client.listTools(); the entries in skipped, which come before it, and
\* every entry when there is no such next, are passed over.
listToolsLoop(w, next, skipped) ==
    IF next = None
    THEN [w EXCEPT !.me = [Finish(w.me, "ok", NoErr) EXCEPT !.ahead = {}]]
    ELSE [w EXCEPT !.me.pc = "listing", !.me.id = next,
                   !.me.ahead = @ \ ({next} \cup skipped),
                   !.me.queried = @ \cup {next},
                   !.me.requests = @ + 1]

\* a test of the entry that looks at the client alone, whatever the status
asksAnyStatus(conns, h, id) == h[conns[id]].client # None

\* ConnectionManager.listTools: the test of an entry
asks(conns, h, id) ==
    h[conns[id]].status = "connected" /\ h[conns[id]].client # None

\* next and skipped are a way the loop can run on from the entries ahead
LoopChoice(w, next, skipped) ==
    LET ahead == w.me.ahead
        asked == {id \in ahead : asks(w.connections, w.heap, id)}
    IN IF asked = {} THEN next = None /\ skipped = ahead
       ELSE next \in asked /\ skipped \subseteq (ahead \ asked)

\* listTools() is called
ListToolsStart(p, next, skipped) ==
    /\ Settled
    /\ proc[p].pc = "idle"
    /\ LET w == World(p)
           w0 == [w EXCEPT !.me = [Idle EXCEPT !.op = "listTools",
                                               !.ahead = Keys(connections)]]
       IN /\ LoopChoice(w0, next, skipped)
          /\ Commit(p, listToolsLoop(w0, next, skipped))

\* connection.client.listTools() settled; a failure is caught and logged,
\* a result is added under the server id, and the loop runs on
ListToolsDone(p, listed, next, skipped) ==
    /\ Settled
    /\ proc[p].pc = "listing"
    /\ LET w == World(p)
           w1 == IF listed THEN [w EXCEPT !.me.tools = @ \cup {w.me.id}]
                 ELSE w
       IN /\ LoopChoice(w1, next, skipped)
          /\ Commit(p, listToolsLoop(w1, next, skipped))

\* closeAllConnections that clears the token of every entry it deletes at
\* once
closeAllBeginClearing(w) ==
    LET ids == Keys(w.connections)
        awaited == {id \in ids : w.heap[w.connections[id]].client # None}
        w0 == [w EXCEPT
                  !.me = [Idle EXCEPT
                             !.op = "disconnectAll",
                             !.closing = [id \in ServerIds |->
                                             IF id \in awaited
                                             THEN w.connections[id]
                                             ELSE NoObj],
                             !.requests = Cardinality(awaited)],
                  !.connections = [id \in ServerIds |->
                                      IF id \in ids \ awaited THEN NoObj
                                      ELSE w.connections[id]],
                  !.oauth2Tokens = [id \in ServerIds |->
                                       IF id \in ids \ awaited THEN NoToken
                                       ELSE w.oauth2Tokens[id]]]
    IN IF awaited = {} THEN [w0 EXCEPT !.me = Finish(w0.me, "ok", NoErr)]
       ELSE [w0 EXCEPT !.me.pc = "closingAll"]

\* ConnectionManager.closeAllConnections up to the awaits: closeConnection
\* of every key; the entries with a client await its close(), the others
\* are deleted at once
closeAllBegin(w) ==
    LET ids == Keys(w.connections)
        awaited == {id \in ids : w.heap[w.connections[id]].client # None}
        w0 == [w EXCEPT
                  !.me = [Idle EXCEPT
                             !.op = "disconnectAll",
                             !.closing = [id \in ServerIds |->
                                             IF id \in awaited
                                             THEN w.connections[id]
                                             ELSE NoObj],
                             !.requests = Cardinality(awaited)],
                  !.connections = [id \in ServerIds |->
                                      IF id \in ids \ awaited THEN NoObj
                                      ELSE w.connections[id]]]
    IN IF awaited = {} THEN [w0 EXCEPT !.me = Finish(w0.me, "ok", NoErr)]
       ELSE [w0 EXCEPT !.me.pc = "closingAll"]

\* disconnectAll() is called
DisconnectAllStart(p) ==
    /\ Settled
    /\ proc[p].pc = "idle"
    /\ Commit(p, closeAllBegin(World(p)))

\* closeAllConnections in which a close() that fails rejects the whole call
\* and leaves its entry in place
closeAllDoneRejecting(w, id, closed) ==
    LET o == w.me.closing[id]
        w1 == IF closed THEN [w EXCEPT !.heap[o].client = "closed"]
              ELSE w
        w2 == [w1 EXCEPT !.connections[id] = NoObj,
                         !.me.closing[id] = NoObj]
    IN IF ~closed
       THEN [w EXCEPT !.me = [Finish(w.me, "threw", MkErr({}, NoUrl))
                                 EXCEPT !.closing =
                                            [d \in ServerIds |-> NoObj]]]
       ELSE IF \A d \in ServerIds : w2.me.closing[d] = NoObj
       THEN [w2 EXCEPT !.me = Finish(w2.me, "ok", NoErr)]
       ELSE w2

\* closeAllConnections: the close() of the client of id settled, a failure
\* caught and logged; its closeConnection deletes the entry of id, and
\* when every closeConnection has ended disconnectAll returns
closeAllDone(w, id, closed) ==
    LET o == w.me.closing[id]
        w1 == IF closed THEN [w EXCEPT !.heap[o].client = "closed"]
              ELSE w
        w2 == [w1 EXCEPT !.connections[id] = NoObj,
                         !.me.closing[id] = NoObj]
    IN IF \A d \in ServerIds : w2.me.closing[d] = NoObj
       THEN [w2 EXCEPT !.me = Finish(w2.me, "ok", NoErr)]
       ELSE w2

CloseAllDone(p, id, closed) ==
    /\ Settled
    /\ proc[p].pc = "closingAll"
    /\ proc[p].closing[id] # NoObj
    /\ Commit(p, closeAllDone(World(p), id, closed))

\* MCPCoordinator.registerConnectionState, as the connect route calls it
\* after a connect() that threw
RegisterState(p, id, status) ==
    /\ Settled
    /\ proc[p].pc = "idle"
    /\ Commit(p, registerConnectionState(World(p), id, status, {}, NoUrl))

\* The configurations, token data and handshake errors used where two
\* server ids are followed
FrameConfigs == {NoOAuth, Configured}
FrameDiscoveries ==
    {NoDiscovery,
     [found |-> TRUE, tokenUrl |-> "discToken", authUrl |-> "discAuth",
      registrationUrl |-> "discReg", requiresAuth |-> TRUE]}
FrameTokenDatas ==
    [access_token : {"at"}, expires_in : {120}, refresh_token : {"rt"}]
FrameMsgs == {{"404"}, {"401"}}
NextFrame ==
    \/ \E p \in Connectors, id \in ServerIds, cfg \in FrameConfigs :
           ConnectStart(p, id, cfg)
    \/ \E p \in Connectors, d \in FrameDiscoveries : DiscoveryDone(p, d)
    \/ \E p \in Connectors, outcome \in RegistrationOutcomes :
           RegistrationDone(p, registerDynamicClient(outcome))
    \/ \E p \in Connectors, refreshed \in BOOLEAN :
           RefreshDone(p, refreshed, 120)
    \/ \E p \in Connectors, refreshed \in BOOLEAN :
           FallbackRefreshDone(p, refreshed, 120)
    \/ \E p \in Connectors, shaken \in BOOLEAN, msg \in FrameMsgs :
           HandshakeDone(p, shaken, msg)
    \/ \E p \in Connectors, shaken \in BOOLEAN, msg \in FrameMsgs :
           FallbackHandshakeDone(p, shaken, msg)
    \/ \E p \in Connectors, id \in ServerIds : DisconnectStart(p, id)
    \/ \E p \in Connectors, closed \in BOOLEAN : CloseDone(p, closed)
    \/ \E p \in Connectors, id \in ServerIds : CallToolStart(p, id)
    \/ \E p \in Connectors, called \in BOOLEAN : CallToolDone(p, called)
    \/ \E p \in Connectors, next \in ServerIds \cup {None},
          skipped \in SUBSET ServerIds :
           ListToolsStart(p, next, skipped)
    \/ \E p \in Connectors, listed \in BOOLEAN,
          next \in ServerIds \cup {None}, skipped \in SUBSET ServerIds :
           ListToolsDone(p, listed, next, skipped)
    \/ \E p \in Connectors : DisconnectAllStart(p)
    \/ \E p \in Connectors, id \in ServerIds, closed \in BOOLEAN :
           CloseAllDone(p, id, closed)
    \/ \E p \in Connectors, id \in ServerIds,
          status \in {"auth_required", "error"} :
           RegisterState(p, id, status)
    \/ \E p \in Connectors : Return(p)
    \/ \E id \in ServerIds, tokenData \in FrameTokenDatas :
           SetToken(id, tokenData)
    \/ Tick

SpecFrame == Init /\ [][NextFrame]_vars

\* ------------------------------------------------------------------------
\* resolveScopes on its own
\* ------------------------------------------------------------------------
\* A string is the sequence of its characters, a list of scopes a sequence
\* of strings.  Strings are made of one letter and the blank, up to
\* MaxScopeLen characters.
MaxScopeLen == 2
Blank == " "
Strings(letter) ==
    UNION {[1 .. n -> {letter, Blank}] : n \in 0 .. MaxScopeLen}

\* String.prototype.split(/\s+/): the pieces between the runs of blanks,
\* the empty pieces at the ends included
RECURSIVE splitAt(_, _, _, _)
splitAt(s, i, pieces, piece) ==
    IF i > Len(s) THEN Append(pieces, piece)
    ELSE IF s[i] = Blank
         THEN IF i > 1 /\ s[i - 1] = Blank
              THEN splitAt(s, i + 1, pieces, piece)
              ELSE splitAt(s, i + 1, Append(pieces, piece), <<>>)
         ELSE splitAt(s, i + 1, pieces, Append(piece, s[i]))
split(s) == splitAt(s, 1, <<>>, <<>>)

\* Array.prototype.filter(Boolean) on strings: the empty ones go
NotEmpty(x) == x # <<>>
filterBoolean(list) == SelectSeq(list, NotEmpty)

\* An optional scope source: a string (text) or an array (list)
NoScope == [defined |-> FALSE, isArray |-> FALSE, text |-> <<>>,
            list |-> <<>>]
Text(s) == [defined |-> TRUE, isArray |-> FALSE, text |-> s, list |-> <<>>]
List(l) == [defined |-> TRUE, isArray |-> TRUE, text |-> <<>>, list |-> l]

\* JavaScript truthiness of a source: an array always, a string when it
\* has a character
truthy(x) == x.defined /\ (x.isArray \/ x.text # <<>>)
\* x?.length
hasLength(x) == x.defined /\ Len(x.list) > 0

FallbackScopes == << <<"openid">>, <<"email">>, <<"profile">> >>

\* OAuthHandler.resolveScopes
resolveScopes(input) ==
    IF truthy(input.userScope)
    THEN IF input.userScope.isArray THEN input.userScope.list
         ELSE filterBoolean(split(input.userScope.text))
    ELSE IF truthy(input.headerScope)
    THEN filterBoolean(split(input.headerScope.text))
    ELSE IF hasLength(input.prmScopes) THEN input.prmScopes.list
    ELSE IF hasLength(input.registrationScopes)
    THEN input.registrationScopes.list
    ELSE IF hasLength(input.asmScopes) THEN input.asmScopes.list
    ELSE FallbackScopes

\* The inputs of resolveScopes: every source absent, empty, blank or with
\* scopes of its own letter
Lists(letter) == {NoScope, List(<<>>), List(<< <<letter>> >>)}
ScopeInputs ==
    [userScope : {NoScope} \cup {Text(s) : s \in Strings("u")}
                    \cup {List(<<>>), List(<< <<"u">> >>)},
     headerScope : {NoScope} \cup {Text(s) : s \in Strings("h")},
     prmScopes : Lists("p"),
     registrationScopes : Lists("r"),
     asmScopes : Lists("a")]

InitScopes ==
    /\ InitCoordinator
    /\ eval \in {[f |-> "resolveScopes", input |-> i, done |-> FALSE,
                  result |-> <<>>] : i \in ScopeInputs}

\* resolveScopes(input) is called and returns
ResolveScopes ==
    /\ eval.f = "resolveScopes"
    /\ ~eval.done
    /\ eval' = [eval EXCEPT !.done = TRUE,
                            !.result = resolveScopes(eval.input)]
    /\ UNCHANGED <<connections, heap, oauth2Tokens, now, proc, call>>

NextScopes == ResolveScopes

SpecScopes == InitScopes /\ [][NextScopes]_vars

\* ------------------------------------------------------------------------
\* The scope of the connect URL: from the configured and the discovered
\* scopes to the query of the authorization URL
\* ------------------------------------------------------------------------
\* Array.prototype.join(" ")
RECURSIVE join(_)
join(list) ==
    IF list = <<>> THEN <<>>
    ELSE IF Len(list) = 1 THEN list[1]
    ELSE list[1] \o <<Blank>> \o join(Tail(list))

\* discoverOAuthConfiguration: the scopes of its result
discoveredScopes(discoveredAuth) ==
    resolveScopes([userScope |-> NoScope,
                   headerScope |-> discoveredAuth.headerScope,
                   prmScopes |-> discoveredAuth.prmScopes,
                   registrationScopes |-> NoScope,
                   asmScopes |-> discoveredAuth.asmScopes])

\* connect(), "Auto-configuring OAuth": scope and scopes of config.oauth2
\* after the discovery phase; applied is discoveredAuth &&
\* shouldApplyDiscovery
applyDiscoveredScopes(oauth2, discoveredAuth) ==
    IF discoveredAuth.applied
    THEN [scope |-> IF ~truthy(oauth2.scope)
                       /\ truthy(discoveredAuth.headerScope)
                    THEN discoveredAuth.headerScope
                    ELSE oauth2.scope,
          scopes |-> List(discoveredScopes(discoveredAuth))]
    ELSE oauth2

DefaultConnectScope ==
    <<"openid", Blank, "profile", Blank, "offline_access">>

\* getOAuth2TokenHeader: the scope put in the connect URL
connectUrlScope(oauth2Config) ==
    IF truthy(oauth2Config.scope) THEN oauth2Config.scope.text
    ELSE IF truthy(oauth2Config.scopes) THEN join(oauth2Config.scopes.list)
    ELSE DefaultConnectScope

\* connect() from the configuration to the connect URL; the scope of a
\* registration response is not read
connectScope(input) ==
    connectUrlScope(applyDiscoveredScopes(input.oauth2, input.discoveredAuth))

ConnectScopeInputs ==
    [oauth2 : [scope : {NoScope} \cup {Text(s) : s \in Strings("u")},
               scopes : Lists("l")],
     discoveredAuth : [applied : BOOLEAN,
                       headerScope : {NoScope}
                                       \cup {Text(s) : s \in Strings("h")},
                       prmScopes : Lists("p"),
                       asmScopes : Lists("a")],
     registrationScope : {NoScope, Text(<<"r">>)}]

InitConnectScope ==
    /\ InitCoordinator
    /\ eval \in {[f |-> "connectScope", input |-> i, done |-> FALSE,
                  result |-> <<>>] : i \in ConnectScopeInputs}

\* connect() runs from the discovery phase to the connect URL
ConnectScope ==
    /\ eval.f = "connectScope"
    /\ ~eval.done
    /\ eval' = [eval EXCEPT !.done = TRUE,
                            !.result = connectScope(eval.input)]
    /\ UNCHANGED <<connections, heap, oauth2Tokens, now, proc, call>>

SpecConnectScope == InitConnectScope /\ [][ConnectScope]_vars

\* ------------------------------------------------------------------------
\* discoverOAuthConfiguration on its own, request by request
\* ------------------------------------------------------------------------
\* serverUrl: not a URL, a URL whose path is "/", a URL with a path
ServerUrls == {"invalid", "root", "path"}

\* What the probe can end in: a response (401 with or without the hints of
\* WWW-Authenticate, 200, 403) or a rejection with or without one of the
\* cause codes that end the discovery
NoHints == [resource_metadata |-> FALSE, scope |-> NoScope]
ProbeOutcomes ==
    {[kind |-> "response", status |-> 401, wwwAuth |-> h] :
        h \in [resource_metadata : BOOLEAN,
               scope : {NoScope, Text(<<"h">>)}]}
    \cup {[kind |-> "response", status |-> s, wwwAuth |-> NoHints] :
            s \in {200, 403}}
    \cup {[kind |-> "rejected", status |-> 0, wwwAuth |-> NoHints,
           code |-> c] : c \in {"ENOTFOUND", "ECONNREFUSED", "ETIMEDOUT",
                                "other"}}

\* A Protected-Resource-Metadata document: the authorization servers it
\* names ("bad" is not a URL) and its scopes_supported
NoPrm == [found |-> FALSE, authorization_server |-> None,
          authorization_servers |-> <<>>, scopes_supported |-> NoScope]
PrmDocuments ==
    {[found |-> TRUE, authorization_server |-> None,
      authorization_servers |-> l, scopes_supported |-> s] :
        l \in {<<>>, <<"A">>, <<"A", "B">>, <<"bad">>}, s \in Lists("p")}
    \cup {[found |-> TRUE, authorization_server |-> "A",
           authorization_servers |-> <<>>, scopes_supported |-> NoScope]}

\* What the fetch of a metadata URL can end in: a rejection, a status that
\* is not ok, an ok body that does not parse, an ok body that is null, a
\* document
DocOutcomes(documents) ==
    {[kind |-> k, doc |-> NoPrm] :
        k \in {"rejected", "notOk", "unparsable", "null"}}
    \cup {[kind |-> "document", doc |-> d] : d \in documents}

\* An Authorization-Server-Metadata document of server
AsmDocuments(server) ==
    {[found |-> TRUE, authorization_server |-> server,
      authorization_servers |-> <<>>, scopes_supported |-> s] :
        s \in Lists("a")}

\* OAuthDiscoveryResult; kind is "null", "result" or "threw"
NoResult == [kind |-> None, tokenUrl |-> None, authUrl |-> None,
             registrationUrl |-> None, scopes |-> <<>>,
             headerScope |-> NoScope, requiresAuth |-> FALSE]

\* The locals of discoverOAuthConfiguration; requests lists the fetches
\* made, each with what it asked, of whom, and whether it was answered
\* (the probe: by a response; a metadata fetch: by a document)
Discovering(serverUrl) ==
    [f |-> "discover", pc |-> "start", serverUrl |-> serverUrl,
     headerScope |-> NoScope, resourceMetadataUrl |-> FALSE,
     probeRequiresAuth |-> FALSE, candidateUrls |-> <<>>,
     prm |-> NoPrm, authMeta |-> NoPrm, requests |-> <<>>,
     result |-> NoResult]

fetch(e, kind, target) ==
    [e EXCEPT !.requests = Append(@, [kind |-> kind, target |-> target,
                                      ok |-> FALSE])]
answered(e) == [e EXCEPT !.requests[Len(e.requests)].ok = TRUE]
returns(e, kind) == [e EXCEPT !.pc = "done", !.result.kind = kind]

\* discoverOAuthConfiguration(serverUrl) is called: new URL(serverUrl),
\* outside the try, then the probe
discoverBegin(e) ==
    IF e.serverUrl = "invalid" THEN returns(e, "threw")
    ELSE [fetch(e, "probe", "resource") EXCEPT !.pc = "probe"]

\* Step 2 from the next candidate on: fetch it, or with none left and no
\* document return null
nextCandidate(e) ==
    IF e.candidateUrls = <<>> THEN returns(e, "null")
    ELSE [fetch(e, "prm", Head(e.candidateUrls)) EXCEPT
              !.pc = "prm", !.candidateUrls = Tail(@)]

\* probeDone without the return on a probe that is ok
probeDoneContinuing(e, probe) ==
    LET hinted == [e EXCEPT
                      !.probeRequiresAuth = TRUE,
                      !.resourceMetadataUrl = probe.wwwAuth.resource_metadata,
                      !.headerScope = probe.wwwAuth.scope]
        candidates(x) ==
            [x EXCEPT !.candidateUrls =
                (IF x.resourceMetadataUrl THEN <<"hinted">> ELSE <<>>)
                \o <<IF x.serverUrl = "root" THEN "wellKnown"
                     ELSE "wellKnownPath", "wellKnown">>]
    IN IF probe.kind = "rejected"
       THEN IF probe.code \in {"ENOTFOUND", "ECONNREFUSED", "ETIMEDOUT"}
            THEN returns(e, "null")
            ELSE nextCandidate(candidates(e))
       ELSE IF probe.status = 401
            THEN nextCandidate(candidates(answered(hinted)))
            ELSE nextCandidate(candidates(answered(e)))

\* The probe settled
probeDone(e, probe) ==
    LET hinted == [e EXCEPT
                      !.probeRequiresAuth = TRUE,
                      !.resourceMetadataUrl = probe.wwwAuth.resource_metadata,
                      !.headerScope = probe.wwwAuth.scope]
        candidates(x) ==
            [x EXCEPT !.candidateUrls =
                (IF x.resourceMetadataUrl THEN <<"hinted">> ELSE <<>>)
                \o <<IF x.serverUrl = "root" THEN "wellKnown"
                     ELSE "wellKnownPath", "wellKnown">>]
    IN IF probe.kind = "rejected"
       THEN IF probe.code \in {"ENOTFOUND", "ECONNREFUSED", "ETIMEDOUT"}
            THEN returns(e, "null")
            ELSE nextCandidate(candidates(e))
       ELSE IF probe.status = 401
            THEN nextCandidate(candidates(answered(hinted)))
            ELSE IF probe.status \in 200 .. 299
                 THEN returns(answered(e), "null")
                 ELSE nextCandidate(candidates(answered(e)))

\* The result built from prm and authMeta
finish(e) ==
    LET scopes == resolveScopes(
                      [userScope |-> NoScope,
                       headerScope |-> e.headerScope,
                       prmScopes |-> e.prm.scopes_supported,
                       registrationScopes |-> NoScope,
                       asmScopes |-> e.authMeta.scopes_supported])
        endpoint(name) ==
            IF e.authMeta.found
            THEN <<e.authMeta.authorization_server, name>> ELSE None
    IN [e EXCEPT !.pc = "done",
                 !.result = [kind |-> "result",
                             tokenUrl |-> endpoint("token"),
                             authUrl |-> endpoint("authorization"),
                             registrationUrl |-> endpoint("registration"),
                             scopes |-> scopes,
                             headerScope |-> e.headerScope,
                             requiresAuth |-> e.probeRequiresAuth]]

\* Step 3: the authorization server named first, if any, is asked for its
\* metadata; new URL(..., authServer) throws into the outer catch
authorizationServerStage(e) ==
    LET authServer ==
            IF e.prm.authorization_server # None
            THEN e.prm.authorization_server
            ELSE IF e.prm.authorization_servers # <<>>
                 THEN e.prm.authorization_servers[1]
                 ELSE None
    IN IF authServer = None THEN finish(e)
       ELSE IF authServer = "bad" THEN returns(e, "null")
       ELSE [fetch(e, "asm", authServer) EXCEPT !.pc = "asm"]

\* The fetch of a Protected-Resource-Metadata candidate settled
prmDone(e, outcome) ==
    IF outcome.kind \in {"rejected", "notOk", "unparsable"}
    THEN nextCandidate(e)
    ELSE IF outcome.kind = "null" THEN returns(e, "null")
    ELSE authorizationServerStage([answered(e) EXCEPT !.prm = outcome.doc])

\* The fetch of the Authorization-Server-Metadata settled
asmDone(e, outcome) ==
    IF outcome.kind = "document"
    THEN finish([answered(e) EXCEPT !.authMeta = outcome.doc])
    ELSE finish(e)

InitDiscovery ==
    /\ InitCoordinator
    /\ eval \in {Discovering(u) : u \in ServerUrls}

EvalStep(e) ==
    /\ eval' = e
    /\ UNCHANGED <<connections, heap, oauth2Tokens, now, proc, call>>

DiscoverStart ==
    /\ eval.f = "discover" /\ eval.pc = "start"
    /\ EvalStep(discoverBegin(eval))

ProbeDone(probe) ==
    /\ eval.f = "discover" /\ eval.pc = "probe"
    /\ EvalStep(probeDone(eval, probe))

PrmDone(outcome) ==
    /\ eval.f = "discover" /\ eval.pc = "prm"
    /\ EvalStep(prmDone(eval, outcome))

AsmDone ==
    /\ eval.f = "discover" /\ eval.pc = "asm"
    /\ \E outcome \in DocOutcomes(
                           AsmDocuments(eval.requests[Len(eval.requests)]
                                            .target)) :
           EvalStep(asmDone(eval, outcome))

NextDiscovery ==
    \/ DiscoverStart
    \/ \E probe \in ProbeOutcomes : ProbeDone(probe)
    \/ \E outcome \in DocOutcomes(PrmDocuments) : PrmDone(outcome)
    \/ AsmDone

SpecDiscovery == InitDiscovery /\ [][NextDiscovery]_vars

\* ------------------------------------------------------------------------
\* The PKCE state: encodeState, decodeState and the two routes that use
\* them, POST /api/mcp/oauth-authorize and GET /api/mcp/oauth-callback
\* ------------------------------------------------------------------------
\* Buffers are sequences of bytes; strings of the base64 alphabets are
\* sequences of characters: 0 .. 61 the letters and digits, then "+", "/",
\* "-", "_" and "="
ByteRange == 256
Plus == 62
Slash == 63
Minus == 64
Underscore == 65
Pad == 66

RECURSIVE sum(_)
sum(s) == IF s = <<>> THEN 0 ELSE Head(s) + sum(Tail(s))

replace(str, from, to) ==
    [i \in 1 .. Len(str) |-> IF str[i] = from THEN to ELSE str[i]]

\* buffer.toString('base64')
RECURSIVE toBase64(_)
toBase64(b) ==
    IF b = <<>> THEN <<>>
    ELSE IF Len(b) = 1
    THEN <<b[1] \div 4, (b[1] % 4) * 16, Pad, Pad>>
    ELSE IF Len(b) = 2
    THEN <<b[1] \div 4, ((b[1] % 4) * 16) + (b[2] \div 16),
           (b[2] % 16) * 4, Pad>>
    ELSE <<b[1] \div 4, ((b[1] % 4) * 16) + (b[2] \div 16),
           ((b[2] % 16) * 4) + (b[3] \div 64), b[3] % 64>>
         \o toBase64(SubSeq(b, 4, Len(b)))

\* Buffer.from(str, 'base64'): the characters "+" and "/" and the letters
\* and digits are read six bits each, the others are passed over; the bits
\* left over at the end are dropped
RECURSIVE fromSextets(_)
fromSextets(c) ==
    IF Len(c) < 2 THEN <<>>
    ELSE IF Len(c) = 2 THEN <<(c[1] * 4) + (c[2] \div 16)>>
    ELSE IF Len(c) = 3
    THEN <<(c[1] * 4) + (c[2] \div 16),
           ((c[2] % 16) * 16) + (c[3] \div 4)>>
    ELSE <<(c[1] * 4) + (c[2] \div 16),
           ((c[2] % 16) * 16) + (c[3] \div 4),
           ((c[3] % 4) * 64) + c[4]>>
         \o fromSextets(SubSeq(c, 5, Len(c)))

fromBase64(str) == fromSextets(SelectSeq(str, LAMBDA c : c <= Slash))

\* base64URLEncode
base64URLEncode(buffer) ==
    SelectSeq(replace(replace(toBase64(buffer), Plus, Minus),
                      Slash, Underscore),
              LAMBDA c : c # Pad)

\* base64URLDecode
base64URLDecode(str) ==
    LET padded == replace(replace(str, Minus, Plus), Underscore, Slash)
        padding == [i \in 1 .. ((4 - (Len(padded) % 4)) % 4) |-> Pad]
    IN fromBase64(padded \o padding)

\* getEncryptionKey: the key derived from STATE_SECRET, the same for every
\* call of a process
EncryptionKey == 90

\* aes-256-gcm, idealised: a stream cipher that keeps the length of the
\* text and a tag over key, iv and encrypted data that no change of a
\* single byte leaves intact
IvLength == 16
AuthTagLength == 16

keystream(key, iv, i) == (key + sum(iv) + 7 * i) % ByteRange

cipherUpdate(key, iv, text) ==
    [i \in 1 .. Len(text) |->
        (text[i] + keystream(key, iv, i)) % ByteRange]

decipherUpdate(key, iv, data) ==
    [i \in 1 .. Len(data) |->
        (data[i] + ByteRange - keystream(key, iv, i)) % ByteRange]

weigh(s, j) == sum([i \in 1 .. Len(s) |-> (i + j) * s[i]])

getAuthTag(key, iv, data) ==
    [j \in 1 .. AuthTagLength |->
        (key + Len(iv) + Len(data) + weigh(iv, j)
         + weigh(data, j + Len(iv))) % ByteRange]

\* decipher.final taking every tag
decipherFinalUnverified(key, iv, authTag, data) ==
    /\ iv # <<>>
    /\ Len(authTag) \in {4, 8} \cup (12 .. AuthTagLength)

\* decipher.setAuthTag and decipher.final: does the tag verify?  A tag of
\* a length the cipher does not take, or an empty iv, throws like a tag
\* that does not match.
decipherFinal(key, iv, authTag, data) ==
    /\ iv # <<>>
    /\ Len(authTag) \in {4, 8} \cup (12 .. AuthTagLength)
    /\ authTag = SubSeq(getAuthTag(key, iv, data), 1, Len(authTag))

\* PKCEStateData; JSON.stringify writes it as an opening brace, its four
\* values (the server id by its place in ServerOrder, the time in whole
\* minutes) and a closing brace, and JSON.parse throws on a text of another
\* shape
MsPerMinute == 60 * 1000
OpenBrace == 123
CloseBrace == 125
NoStateData == [verifier |-> 0, serverId |-> None, nonce |-> 0,
                createdAt |-> 0]

serverIdIndex(id) == CHOOSE i \in 1 .. Len(ServerOrder) : ServerOrder[i] = id

stringify(data) ==
    <<OpenBrace, data.verifier, serverIdIndex(data.serverId), data.nonce,
      data.createdAt \div MsPerMinute, CloseBrace>>

parses(text) ==
    /\ Len(text) = 6
    /\ text[1] = OpenBrace /\ text[6] = CloseBrace
    /\ text[3] \in 1 .. Len(ServerOrder)

parse(text) ==
    [verifier |-> text[2], serverId |-> ServerOrder[text[3]],
     nonce |-> text[4], createdAt |-> text[5] * MsPerMinute]

\* encodeState(data) at time t with the nonce and the iv that randomBytes
\* gave
encodeState(data, nonce, iv, t) ==
    LET fullData == [verifier |-> data.verifier, serverId |-> data.serverId,
                     nonce |-> nonce, createdAt |-> t]
        json == stringify(fullData)
        key == EncryptionKey
        encrypted == cipherUpdate(key, iv, json)
        authTag == getAuthTag(key, iv, encrypted)
        combined == iv \o authTag \o encrypted
    IN base64URLEncode(combined)

TEN_MINUTES == 10 * 60 * 1000

\* decodeState(state) at time t with the expiry test given: null is
\* [ok |-> FALSE]; every exception of the body is caught
decodeStateWith(state, t, expired(_, _)) ==
    LET combined == base64URLDecode(state)
        subarray(from, to) ==
            SubSeq(combined, from + 1,
                   IF to < Len(combined) THEN to ELSE Len(combined))
        iv == subarray(0, IvLength)
        authTag == subarray(IvLength, IvLength + AuthTagLength)
        encryptedData == subarray(IvLength + AuthTagLength, Len(combined))
        key == EncryptionKey
        decrypted == decipherUpdate(key, iv, encryptedData)
        null == [ok |-> FALSE, data |-> NoStateData]
    IN IF ~decipherFinal(key, iv, authTag, encryptedData) THEN null
       ELSE IF ~parses(decrypted) THEN null
       ELSE IF expired(t, parse(decrypted).createdAt) THEN null
       ELSE [ok |-> TRUE, data |-> parse(decrypted)]

\* "Validate expiration (10 minutes)"
stateExpired(t, createdAt) == t - createdAt > TEN_MINUTES

\* the expiry test with the boundary excluded
stateExpiredAtBoundary(t, createdAt) == t - createdAt >= TEN_MINUTES

\* decodeState expiring a state at ten minutes sharp
decodeStateExclusive(state, t) ==
    decodeStateWith(state, t, stateExpiredAtBoundary)

\* decodeState
decodeState(state, t) == decodeStateWith(state, t, stateExpired)

\* The process instances that serve the routes, each with its own
\* pkceStore, all with the same STATE_SECRET
InstanceOrder == <<"i1", "i2">>
Instances == {InstanceOrder[k] : k \in 1 .. Len(InstanceOrder)}

\* The instance that serves POST /api/mcp/oauth-authorize; every instance
\* serves the callback
Issuers == {InstanceOrder[1]}

\* What the random generators can give
CodeVerifiers == {201, 202}
Nonces == {5}
Ivs == {[i \in 1 .. IvLength |-> 255]}

\* The clock of the routes moves in steps of five minutes
PkceTickMs == 5 * MsPerMinute
MaxPkceTicks == 3
MaxAuthorize == 1
MaxCallbacks == 2

\* the combined buffer of a state with the byte at place k changed
alterByte(state, k) ==
    LET combined == base64URLDecode(state) IN
    base64URLEncode([combined EXCEPT ![k] = (@ + 1) % ByteRange])

\* a state with its "-" and "_" written "+" and "/"
respell(state) == replace(replace(state, Minus, Plus), Underscore, Slash)

\* a state with one of the bits of its last character that belong to no
\* byte set
spareBit(state) == [state EXCEPT ![Len(state)] = @ + 1]

\* The state parameters a callback is given: a state that was issued, such
\* a state with one byte of its iv, of its tag or of its encrypted data
\* changed, cut short, written in the other spelling or with a spare bit
\* set, the empty string and a string that nobody issued
StatesGiven(issued) ==
    UNION {{s, alterByte(s, 1), alterByte(s, IvLength + 1),
            alterByte(s, IvLength + AuthTagLength + 1),
            SubSeq(s, 1, Len(s) - 4),
            respell(s), spareBit(s)} :
           s \in {issued[k].state : k \in 1 .. Len(issued)}}
    \cup {<<>>, <<1, 2, 3, 4, 5>>}

\* pkceStore of one instance: the entries by their key
NoEntry == [state |-> <<>>, verifier |-> 0, serverId |-> None,
            createdAt |-> 0]
pkceStoreGet(store, state) ==
    IF \E e \in store : e.state = state
    THEN CHOOSE e \in store : e.state = state
    ELSE NoEntry
pkceStoreDelete(store, state) == {e \in store : e.state # state}
pkceStoreSet(store, state, value) ==
    pkceStoreDelete(store, state)
    \cup {[state |-> state, verifier |-> value.verifier,
           serverId |-> value.serverId, createdAt |-> value.createdAt]}

cleanupExpiredEntries(store, t) ==
    {e \in store : ~(t - e.createdAt > TEN_MINUTES)}

\* The routes' state: the clock, pkceStore of every instance, the states
\* issued and what each callback was given and relayed
Routes == [f |-> "pkce", clock |-> 0,
           pkceStore |-> [i \in Instances |-> {}],
           issued |-> <<>>, callbacks |-> <<>>]

\* POST /api/mcp/oauth-authorize on instance i; complete says that authUrl
\* and clientId are given
authorize(e, i, complete, serverId, verifier, nonce, iv) ==
    LET cleaned == cleanupExpiredEntries(e.pkceStore[i], e.clock)
        state == encodeState([verifier |-> verifier, serverId |-> serverId],
                             nonce, iv, e.clock)
        value == [verifier |-> verifier, serverId |-> serverId,
                  createdAt |-> e.clock]
    IN IF ~complete THEN [e EXCEPT !.pkceStore[i] = cleaned]
       ELSE [e EXCEPT !.pkceStore[i] = pkceStoreSet(cleaned, state, value),
                      !.issued = Append(@, [state |-> state,
                                            verifier |-> verifier,
                                            serverId |-> serverId,
                                            instance |-> i,
                                            at |-> e.clock])]

\* GET /api/mcp/oauth-callback on instance i with the state given
callback(e, i, state) ==
    LET decodedState == decodeState(state, e.clock)
        stored == pkceStoreGet(e.pkceStore[i], state)
        entry(via, verifier, serverId) ==
            [state |-> state, instance |-> i, at |-> e.clock, via |-> via,
             verifier |-> verifier, serverId |-> serverId]
    IN IF state = <<>>
       THEN [e EXCEPT !.callbacks = Append(@, entry("none", 0, None))]
       ELSE IF decodedState.ok
       THEN [e EXCEPT !.callbacks =
                Append(@, entry("decoded", decodedState.data.verifier,
                                decodedState.data.serverId))]
       ELSE IF stored # NoEntry
       THEN [e EXCEPT !.callbacks =
                          Append(@, entry("memory", stored.verifier,
                                          stored.serverId)),
                      !.pkceStore[i] = pkceStoreDelete(@, state)]
       ELSE [e EXCEPT !.callbacks = Append(@, entry("none", 0, None))]

InitPkce ==
    /\ InitCoordinator
    /\ eval = Routes

Authorize(i, complete, serverId, verifier, nonce, iv) ==
    /\ eval.f = "pkce"
    /\ complete => Len(eval.issued) < MaxAuthorize
    /\ EvalStep(authorize(eval, i, complete, serverId, verifier, nonce, iv))

Callback(i, state) ==
    /\ eval.f = "pkce"
    /\ Len(eval.callbacks) < MaxCallbacks
    /\ EvalStep(callback(eval, i, state))

PkceTick ==
    /\ eval.f = "pkce"
    /\ eval.clock < MaxPkceTicks * PkceTickMs
    /\ EvalStep([eval EXCEPT !.clock = @ + PkceTickMs])

NextPkce ==
    \/ \E i \in Issuers, complete \in BOOLEAN, serverId \in ServerIds,
          verifier \in CodeVerifiers, nonce \in Nonces, iv \in Ivs :
           Authorize(i, complete, serverId, verifier, nonce, iv)
    \/ /\ eval.f = "pkce"
       /\ \E i \in Instances, state \in StatesGiven(eval.issued) :
              Callback(i, state)
    \/ PkceTick

SpecPkce == InitPkce /\ [][NextPkce]_vars

\* ------------------------------------------------------------------------
\* POST /api/mcp/connect: the servers listed are connected, and unless
\* skipDisconnect is true the tracked servers that are not listed are
\* disconnected first.  One request is served at a time; its connect()
\* calls run side by side, the k-th as the call of the k-th caller.
\* ------------------------------------------------------------------------
\* The lists of servers a request can carry: no id twice
ServerLists ==
    {<<>>} \cup {<<id>> : id \in ServerIds}
    \cup {l \in ServerIds \X ServerIds : l[1] # l[2]}

\* The orders in which the keys of the connections Map can come
Orders(ids) ==
    {order \in UNION {[1 .. n -> ids] : n \in 0 .. Len(ServerOrder)} :
        /\ Len(order) = Cardinality(ids)
        /\ \A i, j \in 1 .. Len(order) : order[i] = order[j] => i = j}

\* The server configurations of the requests; each parses
RouteConfigs == {NoOAuth, Configured}
RouteDiscoveries == {NoDiscovery}
RouteMsgs == {{"404"}, {"401"}}
RouteTokenDatas ==
    [access_token : {"at"}, expires_in : {60, 120}, refresh_token : {"rt"}]

\* The request: where it is (pc), body.servers by id, skipDisconnect, the
\* ids the loop has yet to disconnect, the server whose connect() is to be
\* called next, the config of each server as the route parsed it, and
\* currentIds as read at the start
NoRequest == [f |-> "route", pc |-> "idle", servers |-> <<>>,
              skipDisconnect |-> FALSE, toDisconnect |-> <<>>,
              next |-> 1, configs |-> <<>>, currentIds |-> {}]

\* buildConnectUrl
buildConnectUrl(config) ==
    IF config.has /\ config.authUrl # None /\ config.clientId # None
    THEN [authUrl |-> config.authUrl, clientId |-> config.clientId]
    ELSE NoUrl

\* isAuthRequiredError, on the messages of the model: of its indicators
\* these three are among the substrings a message is made of
isAuthRequiredError(error) ==
    \/ Includes(error.msg, "authorize")
    \/ Includes(error.msg, "token expired")
    \/ Includes(error.msg, "401")
    \/ error.connectUrl # NoUrl

\* The request after the loop of disconnects, or with none to make
afterDisconnects(e) ==
    IF e.servers = <<>> THEN NoRequest ELSE [e EXCEPT !.pc = "starting"]

\* a request that disconnects whether or not skipDisconnect is true
routeBeginDisconnecting(conns, servers, skipDisconnect, order) ==
    LET newIds == {servers[k] : k \in 1 .. Len(servers)}
        toDisconnect == SelectSeq(order, LAMBDA id : id \notin newIds)
        e == [NoRequest EXCEPT !.servers = servers,
                               !.skipDisconnect = skipDisconnect,
                               !.currentIds = Keys(conns),
                               !.toDisconnect = toDisconnect]
    IN IF toDisconnect # <<>> THEN [e EXCEPT !.pc = "disconnecting"]
       ELSE afterDisconnects(e)

\* The request arrives: currentIds, newIds, toDisconnect
routeBegin(conns, servers, skipDisconnect, order) ==
    LET newIds == {servers[k] : k \in 1 .. Len(servers)}
        toDisconnect == IF skipDisconnect THEN <<>>
                        ELSE SelectSeq(order, LAMBDA id : id \notin newIds)
        e == [NoRequest EXCEPT !.servers = servers,
                               !.skipDisconnect = skipDisconnect,
                               !.currentIds = Keys(conns),
                               !.toDisconnect = toDisconnect]
    IN IF toDisconnect # <<>> THEN [e EXCEPT !.pc = "disconnecting"]
       ELSE afterDisconnects(e)

\* The catch of the route after a connect() that threw: the status the
\* route decides on is registered unless the record already has it
routeCatch(w, id, config) ==
    LET error == w.me.error
        connection == w.connections[id]
        authRequired == isAuthRequiredError(error)
        connectUrl ==
            IF error.connectUrl # NoUrl THEN error.connectUrl
            ELSE IF connection # NoObj
                    /\ w.heap[connection].connectUrl # NoUrl
                 THEN w.heap[connection].connectUrl
                 ELSE buildConnectUrl(config)
        status == IF authRequired THEN "auth_required"
                  ELSE IF connection # NoObj
                       THEN w.heap[connection].status
                       ELSE "error"
    IN IF connection = NoObj \/ w.heap[connection].status # status
       THEN registerConnectionState(w, id, status, error.msg, connectUrl)
       ELSE w

InitRoute ==
    /\ InitCoordinator
    /\ eval = NoRequest

Serving(pc) == eval.f = "route" /\ eval.pc = pc

RouteStart(servers, skipDisconnect, order) ==
    /\ Serving("idle")
    /\ \A p \in Procs : proc[p].pc = "idle"
    /\ EvalStep(routeBegin(connections, servers, skipDisconnect, order))

\* `await mcpCoordinator.disconnect(id)` of the loop is called
RouteDisconnect ==
    /\ Serving("disconnecting")
    /\ eval.toDisconnect # <<>>
    /\ proc[ProcOrder[1]].pc = "idle"
    /\ CommitRegistry(ProcOrder[1],
                      disconnectBegin(World(ProcOrder[1]),
                                      Head(eval.toDisconnect)))
    /\ eval' = [eval EXCEPT !.toDisconnect = Tail(@)]
    /\ UNCHANGED <<now, call>>

\* The loop of disconnects is over
RouteDisconnected ==
    /\ Serving("disconnecting")
    /\ eval.toDisconnect = <<>>
    /\ proc[ProcOrder[1]].pc = "idle"
    /\ EvalStep(afterDisconnects(eval))

\* servers.map(async ...) calls connect() of the next server
RouteConnect(cfg) ==
    /\ Serving("starting")
    /\ LET p == ProcOrder[eval.next] IN
       CommitRegistry(p, connectBegin(World(p), eval.servers[eval.next],
                                      cfg, now))
    /\ eval' = [eval EXCEPT
                   !.next = @ + 1,
                   !.configs = Append(@, cfg),
                   !.pc = IF eval.next = Len(eval.servers)
                          THEN "awaiting" ELSE "starting"]
    /\ UNCHANGED <<now, call>>

\* A connect() of the request has ended and its callback runs on; with
\* the last of them the response is sent
RouteSettle(k) ==
    /\ Serving("awaiting")
    /\ k \in 1 .. Len(eval.servers)
    /\ proc[ProcOrder[k]].pc = "done"
    /\ LET p == ProcOrder[k]
           w == World(p)
           w1 == IF w.me.result = "threw"
                 THEN routeCatch(w, eval.servers[k], eval.configs[k])
                 ELSE w
       IN /\ CommitRegistry(p, [w1 EXCEPT !.me = Idle])
          /\ eval' = IF \A q \in Procs \ {p} : proc[q].pc = "idle"
                     THEN NoRequest ELSE eval
    /\ UNCHANGED <<now, call>>

NextRoute ==
    \/ \E servers \in ServerLists, skipDisconnect \in BOOLEAN,
          order \in Orders(Keys(connections)) :
           RouteStart(servers, skipDisconnect, order)
    \/ RouteDisconnect
    \/ \E closed \in BOOLEAN :
           Serving("disconnecting") /\ CloseDone(ProcOrder[1], closed)
    \/ Serving("disconnecting") /\ Return(ProcOrder[1])
    \/ RouteDisconnected
    \/ \E cfg \in RouteConfigs : RouteConnect(cfg)
    \/ \E p \in Procs, d \in RouteDiscoveries :
           Serving("awaiting") /\ DiscoveryDone(p, d)
    \/ \E p \in Procs, refreshed \in BOOLEAN, e \in ExpiresIns :
           Serving("awaiting") /\ RefreshDone(p, refreshed, e)
    \/ \E p \in Procs, refreshed \in BOOLEAN, e \in ExpiresIns :
           Serving("awaiting") /\ FallbackRefreshDone(p, refreshed, e)
    \/ \E p \in Procs, shaken \in BOOLEAN, msg \in RouteMsgs :
           Serving("awaiting") /\ HandshakeDone(p, shaken, msg)
    \/ \E p \in Procs, shaken \in BOOLEAN, msg \in RouteMsgs :
           Serving("awaiting") /\ FallbackHandshakeDone(p, shaken, msg)
    \/ \E k \in 1 .. Len(ProcOrder) : RouteSettle(k)
    \/ \E id \in ServerIds, tokenData \in RouteTokenDatas :
           Serving("idle") /\ SetToken(id, tokenData)

SpecRoute == InitRoute /\ [][NextRoute]_vars

\* ------------------------------------------------------------------------
\* The retry: POST /api/mcp/set-token and connect() one after the other, as
\* the settings page calls them when the authorization comes back.  The
\* token is stored while no connect() is under way.
\* ------------------------------------------------------------------------
NoCallUnderWay == \A p \in Procs : proc[p].pc = "idle"

NextRetry ==
    \/ \E p \in Connectors, id \in Targets, cfg \in Configs :
           ConnectStart(p, id, cfg)
    \/ \E p \in Procs, d \in Discoveries : DiscoveryDone(p, d)
    \/ \E p \in Procs, outcome \in RegistrationOutcomes :
           RegistrationDone(p, registerDynamicClient(outcome))
    \/ \E p \in Procs, refreshed \in BOOLEAN, e \in ExpiresIns :
           RefreshDone(p, refreshed, e)
    \/ \E p \in Procs, refreshed \in BOOLEAN, e \in ExpiresIns :
           FallbackRefreshDone(p, refreshed, e)
    \/ \E p \in Procs, shaken \in BOOLEAN, msg \in HandshakeMsgs :
           HandshakeDone(p, shaken, msg)
    \/ \E p \in Procs, shaken \in BOOLEAN, msg \in HandshakeMsgs :
           FallbackHandshakeDone(p, shaken, msg)
    \/ \E p \in Procs : Return(p)
    \/ \E id \in Targets, tokenData \in TokenDatas :
           NoCallUnderWay /\ SetToken(id, tokenData)

SpecRetry == Init /\ [][NextRetry]_vars

\* ------------------------------------------------------------------------
\* connect() calls for one server id side by side: nothing serializes
\* them, so a second call can pass the already-connected check while the
\* first awaits its discovery or its handshake
\* ------------------------------------------------------------------------
RaceConfigs == {NoOAuth, [Configured EXCEPT !.authUrl = None,
                                            !.clientId = None]}
RaceMsgs == {{"404"}, {"401"}}

NextRace ==
    \/ \E p \in Procs, id \in Targets, cfg \in RaceConfigs :
           ConnectStart(p, id, cfg)
    \/ \E p \in Procs : DiscoveryDone(p, NoDiscovery)
    \/ \E p \in Procs, shaken \in BOOLEAN, msg \in RaceMsgs :
           HandshakeDone(p, shaken, msg)
    \/ \E p \in Procs, shaken \in BOOLEAN, msg \in RaceMsgs :
           FallbackHandshakeDone(p, shaken, msg)
    \/ \E p \in Procs, id \in Targets : DisconnectStart(p, id)
    \/ \E p \in Procs, closed \in BOOLEAN : CloseDone(p, closed)
    \/ \E p \in Procs : Return(p)

SpecRace == Init /\ [][NextRace]_vars

\* ------------------------------------------------------------------------
\* The headers of connect(): config.headers, the objects that stand in for
\* it and the Authorization property written into them.  A header object
\* is known by its place: "config" is config.headers, "primary" and
\* "fallback" are the {} created when config.headers is undefined.
\* ------------------------------------------------------------------------
HeaderObjects == {"config", "primary", "fallback"}

\* The header objects of one connect(): defined says whether the parsed
\* config has a headers object (without an Authorization property of its
\* own), authorization is the Authorization property of each object,
\* headers, fallbackHeaders and transport say which object the local
\* `headers`, the local `fallbackHeaders` and the stateless transport
\* refer to; asked, returned and threw record the getOAuth2TokenHeader
\* call of the fallback and its outcome.
Headers(defined) ==
    [f |-> "headers", defined |-> defined,
     authorization |-> [o \in HeaderObjects |-> None],
     headers |-> None, fallbackHeaders |-> None, transport |-> None,
     asked |-> FALSE, returned |-> None, threw |-> FALSE]

\* `${token_type} ${access_token}` of the record in the vault
tokenHeader(tokens, id) == <<"Bearer", tokens[id].access_token>>

\* headers['Authorization'] = authHeader, on the object a local refers to
setAuthorization(e, o, authHeader) ==
    [e EXCEPT !.authorization[o] = authHeader]

\* `config.headers || {}`
headersOr(e, fresh) == IF e.defined THEN "config" ELSE fresh

\* "Prepare headers" and the getOAuth2TokenHeader call of the primary
\* attempt as far as it answers without a refresh
primaryHeaders(e, tokens, id, cfg, t) ==
    LET e1 == [e EXCEPT !.headers = headersOr(e, "primary")] IN
    IF /\ cfg.has /\ cfg.tokenUrl # None
       /\ tokenHeaderPath(tokens, id, cfg, t) = "cached"
    THEN setAuthorization(e1, e1.headers, tokenHeader(tokens, id))
    ELSE e1

\* createStatelessHTTPTransport(config.url, fallbackHeaders): the
\* transport keeps the object it is given
statelessTransport(e) == [e EXCEPT !.transport = e.fallbackHeaders]

\* the getOAuth2TokenHeader call of the fallback has returned authHeader
fallbackReturned(e, authHeader) ==
    statelessTransport(
        [setAuthorization(e, e.fallbackHeaders, authHeader)
            EXCEPT !.returned = authHeader])

\* the getOAuth2TokenHeader call of the fallback has thrown
fallbackThrew(e) == statelessTransport([e EXCEPT !.threw = TRUE])

\* "Re-prepare headers for fallback" as far as getOAuth2TokenHeader
\* answers without a refresh
fallbackHeaders(e, tokens, id, cfg, t) ==
    LET e1 == [e EXCEPT !.fallbackHeaders = headersOr(e, "fallback")]
        path == tokenHeaderPath(tokens, id, cfg, t)
    IN IF cfg.has
       THEN CASE path = "cached" ->
                     fallbackReturned([e1 EXCEPT !.asked = TRUE],
                                      tokenHeader(tokens, id))
              [] path = "refresh" -> [e1 EXCEPT !.asked = TRUE]
              [] OTHER -> fallbackThrew([e1 EXCEPT !.asked = TRUE])
       ELSE statelessTransport(e1)

\* refreshToken resolved with a token of its own, or rejected
refreshDoneWith(w, ok, access_token, expires_in, t) ==
    LET tokenData == [access_token |-> access_token,
                      expires_in |-> expires_in, refresh_token |-> None]
    IN IF ok THEN [w EXCEPT !.oauth2Tokens =
                       setOAuth2Token(w.oauth2Tokens, w.me.id,
                                      tokenSet(tokenData, "rt"), t)]
       ELSE w

HeaderConfigs == {Configured, [Configured EXCEPT !.tokenUrl = None]}
HeaderMsgs == {{"404"}, {"401"}}
RefreshedTokens == {"at1", "at2"}
HeaderTokenDatas == [access_token : {"at"}, expires_in : {120},
                     refresh_token : {None, "rt"}]

\* connect(server) is called with a config whose headers are defined or
\* not
HeadersConnect(p, id, cfg, defined) ==
    /\ Settled
    /\ proc[p].pc = "idle"
    /\ CommitRegistry(p, connectBegin(World(p), id, cfg, now))
    /\ eval' = IF \/ getConnectionStatus(connections, heap, id) = "connected"
                  \/ attemptsDiscovery(cfg)
               THEN Headers(defined)
               ELSE primaryHeaders(Headers(defined), oauth2Tokens, id, cfg,
                                   now)
    /\ UNCHANGED <<now, call>>

\* discovery found nothing: on to the headers
HeadersDiscovered(p) ==
    /\ Settled
    /\ proc[p].pc = "discovering"
    /\ LET w == discoveryDone(World(p), NoDiscovery, now) IN
       /\ CommitRegistry(p, w)
       /\ eval' = primaryHeaders(eval, oauth2Tokens, proc[p].id,
                                 applyDiscovery(proc[p].config, NoDiscovery),
                                 now)
    /\ UNCHANGED <<now, call>>

\* the refresh of the primary getOAuth2TokenHeader settled
HeadersRefreshed(p, ok, access_token, expires_in) ==
    /\ Settled
    /\ proc[p].pc = "refreshing"
    /\ LET w == refreshDoneWith(World(p), ok, access_token, expires_in, now)
           w1 == IF ok THEN w
                 ELSE [w EXCEPT !.me.primaryAuthError =
                                    authRequiredError(w.me.config)]
       IN /\ CommitRegistry(p, afterHeaders(w1, w.me.id))
          /\ eval' = IF ok
                     THEN setAuthorization(eval, eval.headers,
                              tokenHeader(w.oauth2Tokens, w.me.id))
                     ELSE eval
    /\ UNCHANGED <<now, call>>

\* client.connect(transport) of the primary transport settled; a failure
\* that falls back re-prepares the headers
HeadersHandshake(p, ok, msg) ==
    /\ Settled
    /\ proc[p].pc = "handshake"
    /\ LET w == World(p)
           id == w.me.id
           w1 == IF ok
                 THEN LET w2 == handshakeSucceeded(w, id)
                      IN [w2 EXCEPT !.me = Finish(w2.me, "ok", NoErr)]
                 ELSE afterPrimaryFailure(handshakeFailed(w, id, msg),
                                          id, msg, now)
       IN /\ CommitRegistry(p, w1)
          /\ eval' = IF w1.me.fallbacks # w.me.fallbacks
                     THEN fallbackHeaders(eval, oauth2Tokens, id,
                                          w.me.config, now)
                     ELSE eval
    /\ UNCHANGED <<now, call>>

\* the refresh of the fallback getOAuth2TokenHeader settled
HeadersFallbackRefreshed(p, ok, access_token, expires_in) ==
    /\ Settled
    /\ proc[p].pc = "fallbackRefreshing"
    /\ LET w == refreshDoneWith(World(p), ok, access_token, expires_in, now)
           w1 == IF ok THEN w
                 ELSE [w EXCEPT !.me.fallbackAuthError =
                                    authRequiredError(w.me.config)]
       IN /\ CommitRegistry(p, establishFallback(w1, w.me.id))
          /\ eval' = IF ok
                     THEN fallbackReturned(eval,
                              tokenHeader(w.oauth2Tokens, w.me.id))
                     ELSE fallbackThrew(eval)
    /\ UNCHANGED <<now, call>>

NextHeaders ==
    \/ \E id \in Targets, cfg \in HeaderConfigs, defined \in BOOLEAN :
           HeadersConnect(ProcOrder[1], id, cfg, defined)
    \/ HeadersDiscovered(ProcOrder[1])
    \/ \E ok \in BOOLEAN, a \in RefreshedTokens, e \in ExpiresIns :
           HeadersRefreshed(ProcOrder[1], ok, a, e)
    \/ \E ok \in BOOLEAN, msg \in HeaderMsgs :
           HeadersHandshake(ProcOrder[1], ok, msg)
    \/ \E ok \in BOOLEAN, a \in RefreshedTokens, e \in ExpiresIns :
           HeadersFallbackRefreshed(ProcOrder[1], ok, a, e)
    \/ \E ok \in BOOLEAN, msg \in HeaderMsgs :
           FallbackHandshakeDone(ProcOrder[1], ok, msg)
    \/ \E id \in Targets : DisconnectStart(ProcOrder[2], id)
    \/ \E closed \in BOOLEAN : CloseDone(ProcOrder[2], closed)
    \/ \E p \in Procs : Return(p)
    \/ \E id \in Targets, tokenData \in HeaderTokenDatas :
           SetToken(id, tokenData)
    \/ Tick

SpecHeaders == Init /\ [][NextHeaders]_vars

\* ------------------------------------------------------------------------
\* AppProvider on load: the state read back from localStorage by
\* useLocalStorage after the mount, the effect that restores the OAuth
\* tokens and the effect that connects the servers
\* ------------------------------------------------------------------------
MaxConnects == 2
TokensKey == "mcp-oauth-tokens"
ServersKey == "mcp-servers"

\* The provider after its first render and the effects of the mount that
\* change nothing: oauthTokens is {} and mcpServers is [], localStorage
\* holds the persisted tokens (by server id, in the order of
\* Object.entries) and the persisted servers.  hydrated are the keys whose
\* stored value has been put into the state; queue and awaiting are the
\* entries the loop of restoreTokens has yet to reach and the one whose
\* fetch it awaits; sent and answered are the set-token requests made and
\* those that got their response; connects counts the calls of
\* connectServers and answeredAtConnect is what had been answered when the
\* first of them was made.
Mounted(tokens, servers) ==
    [f |-> "load", persisted |-> tokens,
     storage |-> [tokens |-> tokens, servers |-> servers],
     oauthTokens |-> <<>>, mcpServers |-> {}, hydrated |-> {},
     tokensRestoredRef |-> FALSE, queue |-> <<>>, awaiting |-> None,
     sent |-> {}, answered |-> {}, connects |-> 0,
     answeredAtConnect |-> {}]

\* restoreTokens: the loop goes on to its next entry and awaits its fetch
restoreNext(e) ==
    IF e.queue = <<>>
    THEN [e EXCEPT !.awaiting = None]
    ELSE [e EXCEPT !.awaiting = Head(e.queue),
                   !.sent = @ \cup {Head(e.queue)},
                   !.queue = Tail(@)]

\* "Restore OAuth tokens to backend on load": the effect on [oauthTokens],
\* which starts restoreTokens() and does not await it
restoreEffect(e) ==
    IF e.tokensRestoredRef \/ Len(e.oauthTokens) = 0
    THEN e
    ELSE restoreNext([e EXCEPT !.tokensRestoredRef = TRUE,
                               !.queue = e.oauthTokens])

\* connectServers(servers): the POST to /api/mcp/connect is made
connectServers(e) ==
    [e EXCEPT !.connects = @ + 1,
              !.answeredAtConnect = IF e.connects = 0 THEN e.answered
                                    ELSE @]

\* "Connect servers after tokens are restored": the effect on [mcpServers]
connectEffect(e) ==
    IF e.mcpServers # {} /\ e.tokensRestoredRef
    THEN connectServers(e)
    ELSE e

\* the effects of a commit, in the order of their declaration, each when
\* its dependency has changed
commitEffects(e, tokensChanged, serversChanged) ==
    LET e1 == IF tokensChanged THEN restoreEffect(e) ELSE e
    IN IF serversChanged THEN connectEffect(e1) ELSE e1

\* useLocalStorage: the items read after the mount are put into the state
\* (`if (item)`: only where there is one), and the render with them
\* commits
hydrate(e, keys) ==
    LET tokensRead == TokensKey \in keys /\ e.storage.tokens # <<>>
        serversRead == ServersKey \in keys /\ e.storage.servers # {}
        e1 == [e EXCEPT !.hydrated = @ \cup keys,
                        !.oauthTokens = IF tokensRead THEN e.storage.tokens
                                        ELSE @,
                        !.mcpServers = IF serversRead THEN e.storage.servers
                                       ELSE @]
    IN commitEffects(e1, tokensRead, serversRead)

\* The state updates of the mount's effects are rendered together, or the
\* servers (declared first) before the tokens
Hydrate(keys) ==
    /\ eval.f = "load"
    /\ keys # {} /\ keys \cap eval.hydrated = {}
    /\ TokensKey \in keys => ServersKey \in keys \cup eval.hydrated
    /\ EvalStep(hydrate(eval, keys))

\* the fetch of /api/mcp/set-token that restoreTokens awaits has resolved
\* (answered) or rejected, and the loop goes on
SetTokenSettled(isAnswered) ==
    /\ eval.f = "load"
    /\ eval.awaiting # None
    /\ EvalStep(restoreNext(
           [eval EXCEPT !.answered = IF isAnswered
                                     THEN @ \cup {eval.awaiting} ELSE @]))

\* addMcpServer: setMcpServers, localStorage.setItem and the commit
AddMcpServer(id) ==
    /\ eval.f = "load"
    /\ eval.hydrated = {TokensKey, ServersKey}
    /\ id \notin eval.mcpServers
    /\ eval.connects < MaxConnects
    /\ EvalStep(commitEffects(
           [eval EXCEPT !.mcpServers = @ \cup {id},
                        !.storage.servers = eval.mcpServers \cup {id}],
           FALSE, TRUE))

\* the mcp-token-update event: setOauthTokens with the entry added, and
\* the commit
TokenUpdate(id) ==
    /\ eval.f = "load"
    /\ eval.hydrated = {TokensKey, ServersKey}
    /\ \A i \in 1 .. Len(eval.oauthTokens) : eval.oauthTokens[i] # id
    /\ EvalStep(commitEffects(
           [eval EXCEPT !.oauthTokens = Append(@, id),
                        !.storage.tokens = Append(eval.oauthTokens, id)],
           TRUE, FALSE))

InitLoad ==
    /\ InitCoordinator
    /\ eval \in {Mounted(tokens, servers) :
                    tokens \in UNION {Orders(ids) : ids \in SUBSET ServerIds},
                    servers \in SUBSET ServerIds}

NextLoad ==
    \/ \E keys \in SUBSET {TokensKey, ServersKey} : Hydrate(keys)
    \/ \E isAnswered \in BOOLEAN : SetTokenSettled(isAnswered)
    \/ \E id \in ServerIds : AddMcpServer(id)
    \/ \E id \in ServerIds : TokenUpdate(id)

SpecLoad == InitLoad /\ [][NextLoad]_vars

\* ------------------------------------------------------------------------
\* retry(fn, options): the attempts, the waits between them and the
\* outcome
\* ------------------------------------------------------------------------
DefaultMaxAttempts == 3            \* async utilities: maxAttempts = 3
DefaultDelayMs == 1000             \* delayMs = 1000
DefaultBackoffMultiplier == 2      \* backoffMultiplier = 2
MaxAttemptsBound == 3

\* An option that is given, and one that is left out
Given(n) == [given |-> TRUE, n |-> n]
LeftOut == [given |-> FALSE, n |-> 0]

RetryOptions ==
    [maxAttempts : {LeftOut} \cup {Given(n) : n \in 0 .. MaxAttemptsBound},
     delayMs : {LeftOut, Given(10)},
     backoffMultiplier : {LeftOut, Given(1), Given(3)}]

\* What fn can resolve with and what it can reject with
FnValues == {"v1", "v2"}
FnErrors == {"e1", "e2"}

\* Math.pow on natural numbers
RECURSIVE pow(_, _)
pow(base, exponent) ==
    IF exponent = 0 THEN 1 ELSE base * pow(base, exponent - 1)

\* The destructuring of options with its defaults
withDefaults(options) ==
    [maxAttempts |-> IF options.maxAttempts.given
                     THEN options.maxAttempts.n ELSE DefaultMaxAttempts,
     delayMs |-> IF options.delayMs.given
                 THEN options.delayMs.n ELSE DefaultDelayMs,
     backoffMultiplier |-> IF options.backoffMultiplier.given
                           THEN options.backoffMultiplier.n
                           ELSE DefaultBackoffMultiplier]

\* A call of retry that has not begun.  options are the options with
\* their defaults; attempt and lastError are the locals; calls are the
\* outcomes of the invocations of fn that have settled, invoked counts the
\* invocations, waits are the arguments of the delay() calls; outcome,
\* value and error are what the caller receives.
Retrying(options) ==
    [f |-> "retry", pc |-> "start", options |-> withDefaults(options),
     attempt |-> 0, lastError |-> None, invoked |-> 0,
     calls |-> <<>>, waits |-> <<>>,
     outcome |-> None, value |-> None, error |-> None]

\* the test of the for loop: fn is invoked for this attempt, or the loop
\* is left and lastError is thrown
attemptOrThrow(e) ==
    IF e.attempt <= e.options.maxAttempts
    THEN [e EXCEPT !.pc = "calling", !.invoked = @ + 1]
    ELSE [e EXCEPT !.pc = "done", !.outcome = "rejected",
                   !.error = e.lastError]

\* `let attempt = 1` and the first test
retryBegin(e) == attemptOrThrow([e EXCEPT !.attempt = 1])

\* `attempt++` and the test
nextAttempt(e) == attemptOrThrow([e EXCEPT !.attempt = @ + 1])

\* `return await fn()`: fn resolved
fnResolved(e, v) ==
    [e EXCEPT !.pc = "done", !.outcome = "resolved", !.value = v,
              !.calls = Append(@, [ok |-> TRUE, with |-> v])]

\* the catch with a wait after every failure, the last included
fnRejectedAlwaysWaiting(e, error) ==
    LET e1 == [e EXCEPT !.lastError = error,
                        !.calls = Append(@, [ok |-> FALSE, with |-> error])]
        waitTime == e.options.delayMs
                        * pow(e.options.backoffMultiplier, e.attempt - 1)
    IN [e1 EXCEPT !.pc = "waiting", !.waits = Append(@, waitTime)]

\* the catch: lastError is kept and, when another attempt follows, the
\* wait is begun
fnRejected(e, error) ==
    LET e1 == [e EXCEPT !.lastError = error,
                        !.calls = Append(@, [ok |-> FALSE, with |-> error])]
        waitTime == e.options.delayMs
                        * pow(e.options.backoffMultiplier, e.attempt - 1)
    IN IF e.attempt < e.options.maxAttempts
       THEN [e1 EXCEPT !.pc = "waiting", !.waits = Append(@, waitTime)]
       ELSE nextAttempt(e1)

InitBackoff ==
    /\ InitCoordinator
    /\ eval \in {Retrying(options) : options \in RetryOptions}

RetryStart ==
    /\ eval.f = "retry" /\ eval.pc = "start"
    /\ EvalStep(retryBegin(eval))

FnResolved(v) ==
    /\ eval.f = "retry" /\ eval.pc = "calling"
    /\ EvalStep(fnResolved(eval, v))

FnRejected(error) ==
    /\ eval.f = "retry" /\ eval.pc = "calling"
    /\ EvalStep(fnRejected(eval, error))

\* the timer of delay(waitTime) has fired
DelayDone ==
    /\ eval.f = "retry" /\ eval.pc = "waiting"
    /\ EvalStep(nextAttempt(eval))

NextBackoff ==
    \/ RetryStart
    \/ \E v \in FnValues : FnResolved(v)
    \/ \E error \in FnErrors : FnRejected(error)
    \/ DelayDone

SpecBackoff == InitBackoff /\ [][NextBackoff]_vars

\* fn settles whenever it is invoked (one way or the other) and timers
\* fire
FnSettles == \E v \in FnValues, error \in FnErrors :
                 FnResolved(v) \/ FnRejected(error)
SpecBackoffFair ==
    /\ SpecBackoff
    /\ WF_vars(RetryStart) /\ WF_vars(FnSettles) /\ WF_vars(DelayDone)

\* ------------------------------------------------------------------------
\* StorageService over an available Web Storage: values go in through
\* JSON.stringify and come out through JSON.parse
\* ------------------------------------------------------------------------
StorageKeys == {"user", "theme"}

\* JavaScript values: their type and what tells them apart within it
Undefined == [type |-> "undefined", is |-> ""]
Null == [type |-> "null", is |-> ""]
NotANumber == [type |-> "number", is |-> "NaN"]
FortyTwo == [type |-> "number", is |-> "42"]
Str(s) == [type |-> "string", is |-> s]
John == [type |-> "object", is |-> "{id:1}"]
Circular == [type |-> "object", is |-> "circular"]
StorageValues ==
    {Undefined, Null, NotANumber, FortyTwo, Str("dark"), Str("42"), John,
     Circular}

\* The strings of the storage: a JSON string literal (quoted) with its
\* characters, or any other text
Quoted(s) == [quoted |-> TRUE, chars |-> s]
Bare(s) == [quoted |-> FALSE, chars |-> s]
NoItem == Bare("<null>")            \* getItem's null
Throws == Bare("<throws>")          \* an exception instead of a string
NotAString == Bare("<undefined>")   \* JSON.stringify returning undefined

\* JSON.stringify(value)
jsonStringify(value) ==
    CASE value.type = "undefined" -> NotAString
      [] value.type = "null" -> Bare("null")
      [] value.type = "number" ->
             IF value.is = "NaN" THEN Bare("null") ELSE Bare(value.is)
      [] value.type = "string" -> Quoted(value.is)
      [] OTHER -> IF value = Circular THEN Throws ELSE Bare(value.is)

\* What JSON.parse makes of a text that is JSON
jsonValue(item) ==
    IF item.quoted THEN Str(item.chars)
    ELSE CASE item.chars = "null" -> Null
           [] item.chars = "42" -> FortyTwo
           [] OTHER -> John

\* Is the text JSON?
isJson(item) == item.quoted \/ item.chars \in {"null", "42", John.is}

\* Storage.setItem's conversion of its argument to a string
toItem(serialized) ==
    IF serialized = NotAString THEN Bare("undefined") ELSE serialized

\* The storage after construction: available and empty; last is the
\* operation made last and whether it raised
EmptyStorage ==
    [f |-> "storage", items |-> [k \in StorageKeys |-> NoItem],
     map |-> [k \in StorageKeys |-> NoItem],
     last |-> [op |-> None, key |-> None, threw |-> FALSE]]

\* StorageService.get: JSON.parse of the item, the raw string when it is
\* no JSON
storageGet(items, key) ==
    IF items[key] = NoItem THEN Null
    ELSE IF isJson(items[key]) THEN jsonValue(items[key])
    ELSE Str(items[key].chars)

\* StorageService.has
storageHas(items, key) == items[key] # NoItem

\* StorageService.size: Storage.length
storageSize(items) == Cardinality({k \in StorageKeys : items[k] # NoItem})

\* StorageService.set
storageSet(e, key, value) ==
    LET serialized == jsonStringify(value) IN
    IF serialized = Throws
    THEN [e EXCEPT !.last = [op |-> "set", key |-> key, threw |-> TRUE]]
    ELSE [e EXCEPT !.items[key] = toItem(serialized),
                   !.last = [op |-> "set", key |-> key, threw |-> FALSE]]

\* StorageService.remove
storageRemove(e, key) ==
    [e EXCEPT !.items[key] = NoItem,
              !.last = [op |-> "remove", key |-> key, threw |-> FALSE]]

\* StorageService.clear
storageClear(e) ==
    [e EXCEPT !.items = [k \in StorageKeys |-> NoItem],
              !.last = [op |-> "clear", key |-> None, threw |-> FALSE]]

InitStorage == InitCoordinator /\ eval = EmptyStorage

\* map is the key-value map the calls describe: for each key the value of
\* the latest set that did not raise, NoItem for a key that has none
StorageSet(key, value) ==
    /\ eval.f = "storage"
    /\ LET e == storageSet(eval, key, value) IN
       EvalStep([e EXCEPT !.map[key] = IF e.last.threw THEN @
                                       ELSE [set |-> value]])

StorageRemove(key) ==
    /\ eval.f = "storage"
    /\ EvalStep([storageRemove(eval, key) EXCEPT !.map[key] = NoItem])

StorageClear ==
    /\ eval.f = "storage"
    /\ EvalStep([storageClear(eval) EXCEPT
                    !.map = [k \in StorageKeys |-> NoItem]])

NextStorage ==
    \/ \E key \in StorageKeys, value \in StorageValues :
           StorageSet(key, value)
    \/ \E key \in StorageKeys : StorageRemove(key)
    \/ StorageClear

SpecStorage == InitStorage /\ [][NextStorage]_vars

\* ------------------------------------------------------------------------
\* Properties
\* ------------------------------------------------------------------------
StatusOf(id) == getConnectionStatus(connections, heap, id)
Record(id) == heap[connections[id]]
Ended(p, op) == proc[p].pc = "done" /\ proc[p].op = op
\* p's call starts in this step
Starts(p, op) ==
    proc[p].pc = "idle" /\ proc'[p].pc # "idle" /\ proc'[p].op = op
RegistryUnchanged == connections' = connections /\ heap' = heap
VaultUnchanged == oauth2Tokens' = oauth2Tokens

\* C1 as stated: when discovery reports requiresAuth and no client id is
\* configured or registered, connect() ends in auth_required with a
\* connect URL for the user.
C1_ConnectUrlPresented ==
    \A p \in Procs :
        ( /\ Ended(p, "connect")
          /\ proc[p].requiresAuth
          /\ proc[p].config.clientId = None )
        => /\ StatusOf(proc[p].id) = "auth_required"
           /\ Record(proc[p].id).connectUrl # NoUrl

\* C1: when discovery reports requiresAuth together with a token endpoint,
\* no client id is configured or registered, and the Authorization header
\* cannot be prepared, connect() ends in auth_required with no connect URL:
\* the URL is built only when a client id is known.
C1_AuthRequiredWithoutUrl ==
    \A p \in Procs :
        ( /\ Ended(p, "connect")
          /\ proc[p].requiresAuth
          /\ proc[p].config.clientId = None
          /\ proc[p].config.tokenUrl # None
          /\ proc[p].primaryAuthError # NoErr )
        => /\ proc[p].result = "threw"
           /\ proc[p].handshakes = 0
           /\ StatusOf(proc[p].id) = "auth_required"
           /\ proc[p].error.connectUrl = NoUrl
           /\ Record(proc[p].id).connectUrl = NoUrl

\* discovery gave the authorization endpoint, yet no URL was built
C1_Witness ==
    \E p \in Procs :
        /\ Ended(p, "connect")
        /\ proc[p].requiresAuth
        /\ proc[p].config.clientId = None
        /\ proc[p].config.authUrl = "discAuth"
        /\ StatusOf(proc[p].id) = "auth_required"
        /\ Record(proc[p].id).connectUrl = NoUrl

\* C2 as stated: the status of an id changes only along the listed edges,
\* and a connect() never moves a record to auth_required or error unless
\* that same call had first put it in connecting.
Statuses == {"disconnected", "connecting", "connected", "error",
             "auth_required"}

StatedEdges ==
    { <<"disconnected", "connecting">>, <<"connecting", "connected">>,
      <<"connecting", "auth_required">>, <<"connecting", "error">>,
      <<"auth_required", "connecting">>, <<"error", "connecting">> }
        \cup { <<s, "disconnected">> : s \in Statuses }

StatusMovesAlong(edges) ==
    \A id \in ServerIds :
        StatusOf(id)' # StatusOf(id)
        => <<StatusOf(id), StatusOf(id)'>> \in edges

C2_FailsOnlyAfterConnecting ==
    \A p \in Procs :
        ( /\ Ended(p, "connect")
          /\ proc[p].result = "threw"
          /\ StatusOf(proc[p].id) \in {"auth_required", "error"}
          /\ Record(proc[p].id).error = proc[p].error.msg )
        => proc[p].handshakes >= 1

C2_StatedEdges ==
    [][StatusMovesAlong(StatedEdges)]_vars /\ []C2_FailsOnlyAfterConnecting

\* C2: with one connect() per id at a time, the status of an id, as other
\* calls can observe it, changes only along the listed edges and these:
\* disconnected -> auth_required and error -> auth_required (the
\* Authorization header could not be prepared: no connecting in between),
\* disconnected -> error and auth_required -> error (config.url is no
\* URL: no connecting in between), and disconnected -> connected | error
\* (a disconnect removed the record while the handshake was pending).
\* connected is left only for disconnected.  A connect() that fails
\* without having put the record in connecting leaves it auth_required
\* when the header could not be prepared, in error when the URL is
\* none, and untouched when server.config is not JSON.
ObservedEdges ==
    StatedEdges \cup { <<"disconnected", "auth_required">>,
                       <<"error", "auth_required">>,
                       <<"auth_required", "error">>,
                       <<"disconnected", "connected">>,
                       <<"disconnected", "error">> }

C2_FailureWithoutConnecting ==
    \A p \in Procs :
        ( /\ Ended(p, "connect")
          /\ proc[p].result = "threw"
          /\ proc[p].handshakes = 0 )
        => \/ /\ proc[p].primaryAuthError # NoErr
              /\ StatusOf(proc[p].id) = "auth_required"
           \/ /\ ~proc[p].config.urlValid
              /\ proc[p].error.msg = InvalidUrlMsg
              /\ StatusOf(proc[p].id) = "error"
           \/ /\ ~proc[p].config.parses
              /\ proc[p].error.msg = SyntaxErrorMsg

C2_ObservedEdges ==
    [][StatusMovesAlong(ObservedEdges)]_vars /\ []C2_FailureWithoutConnecting

\* a record in error moved to auth_required by a connect() that made no
\* remote call at all
C2_Witness ==
    \E p \in Procs :
        /\ Ended(p, "connect")
        /\ proc[p].result = "threw"
        /\ proc[p].handshakes = 0
        /\ proc[p].requests = 0
        /\ StatusOf(proc[p].id) = "auth_required"
        /\ Record(proc[p].id).client = "failed"

\* C3: connect(server) on an id whose record is Connected returns at once
\* without error, makes no discovery, registration, token or transport
\* call, and leaves the connection record and the token record alone.
C3_ConnectedIsNoOp ==
    [][\A p \in Procs :
          (Starts(p, "connect") /\ StatusOf(proc'[p].id) = "connected")
          => /\ proc'[p].pc = "done"
             /\ proc'[p].result = "ok"
             /\ proc'[p].requests = 0
             /\ proc'[p].transports = 0
             /\ proc'[p].handshakes = 0
             /\ RegistryUnchanged
             /\ VaultUnchanged]_vars

C3_Witness ==
    \E p \in Procs :
        /\ Ended(p, "connect")
        /\ proc[p].result = "ok"
        /\ proc[p].transports = 0
        /\ StatusOf(proc[p].id) = "connected"
        /\ oauth2Tokens[proc[p].id].present

\* C4: callTool on an id whose record is absent or not Connected throws
\* the not-connected error at once: no remote call, nothing left pending,
\* registry and vault unchanged.
C4_CallToolNotConnected ==
    [][\A p \in Procs :
          (Starts(p, "callTool") /\ StatusOf(proc'[p].id) # "connected")
          => /\ proc'[p].pc = "done"
             /\ proc'[p].result = "threw"
             /\ proc'[p].error = MkErr({"is not connected"}, NoUrl)
             /\ proc'[p].requests = 0
             /\ RegistryUnchanged
             /\ VaultUnchanged]_vars

C4_Witness ==
    \E p \in Procs :
        /\ Ended(p, "callTool")
        /\ proc[p].result = "threw"
        /\ proc[p].requests = 0
        /\ StatusOf(proc[p].id) = "connecting"

\* C5: disconnect(serverId) never fails, whether the id is unknown or the
\* close of its client fails.  With no connect() for the id in flight when
\* it returns, the id has no connection record and no token and reads as
\* disconnected; a disconnect of an id that has neither changes nothing.
ConnectInFlight(id) ==
    \E q \in Procs : /\ proc[q].op = "connect"
                     /\ proc[q].id = id
                     /\ proc[q].pc \notin {"idle", "done"}

C5_DisconnectReturns ==
    \A p \in Procs :
        Ended(p, "disconnect")
        => /\ proc[p].result = "ok"
           /\ ~ConnectInFlight(proc[p].id)
              => /\ connections[proc[p].id] = NoObj
                 /\ oauth2Tokens[proc[p].id] = NoToken
                 /\ StatusOf(proc[p].id) = "disconnected"

C5_SecondDisconnect ==
    \A p \in Procs :
        ( /\ Starts(p, "disconnect")
          /\ connections[proc'[p].id] = NoObj
          /\ oauth2Tokens[proc'[p].id] = NoToken )
        => /\ proc'[p].pc = "done"
           /\ proc'[p].result = "ok"
           /\ proc'[p].requests = 0
           /\ RegistryUnchanged
           /\ VaultUnchanged

C5_DisconnectIsTotal == []C5_DisconnectReturns /\ [][C5_SecondDisconnect]_vars

\* a disconnect that had a client to close has returned
C5_Witness ==
    \E p \in Procs :
        /\ Ended(p, "disconnect")
        /\ proc[p].requests = 1
        /\ proc[p].result = "ok"
        /\ ~ConnectInFlight(proc[p].id)
        /\ connections[proc[p].id] = NoObj

\* C6: when the configuration has a token endpoint and the Authorization
\* header cannot be prepared before the primary attempt, connect() creates
\* no transport, attempts no handshake, and leaves the record in
\* auth_required, not in error.
C6_NoTokenNoTransport ==
    \A p \in Procs :
        (Ended(p, "connect") /\ proc[p].primaryAuthError # NoErr)
        => /\ proc[p].config.tokenUrl # None
           /\ proc[p].transports = 0
           /\ proc[p].handshakes = 0
           /\ proc[p].result = "threw"
           /\ proc[p].error = proc[p].primaryAuthError
           /\ StatusOf(proc[p].id) = "auth_required"

\* the refresh of a configured, expired token was rejected
C6_Witness ==
    \E p \in Procs :
        /\ Ended(p, "connect")
        /\ proc[p].primaryAuthError # NoErr
        /\ proc[p].config = Configured
        /\ proc[p].requests = 1
        /\ StatusOf(proc[p].id) = "auth_required"

\* C7: a connect() makes at most two handshakes: the primary one and, only
\* if the primary failure is classified as a transport mismatch, exactly one
\* over the stateless transport; when that one succeeds the record is
\* connected, when it fails the call ends.
C7_OneFallback ==
    \A p \in Procs :
        proc[p].op = "connect"
        => /\ proc[p].handshakes <= 2
           /\ proc[p].transports <= 2
           /\ proc[p].fallbacks <= 1
           /\ proc[p].handshakes = 2 => proc[p].fallbacks = 1
           /\ proc[p].fallbacks = 1
              => isSSEConnectionError(proc[p].connectError.msg)
           /\ ( /\ proc[p].pc = "done"
                /\ proc[p].connectError # NoErr
                /\ isSSEConnectionError(proc[p].connectError.msg) )
              => proc[p].fallbacks = 1
           /\ (proc[p].pc = "done" /\ proc[p].fallbacks = 1)
              => \/ /\ proc[p].result = "ok"
                    /\ proc[p].fallbackError = NoErr
                    /\ StatusOf(proc[p].id) = "connected"
                 \/ /\ proc[p].result = "threw"
                    /\ proc[p].fallbackError # NoErr

C7_Witness ==
    \E p \in Procs :
        /\ Ended(p, "connect")
        /\ proc[p].handshakes = 2
        /\ proc[p].fallbacks = 1
        /\ proc[p].connectError.msg = {"404"}
        /\ proc[p].result = "ok"
        /\ StatusOf(proc[p].id) = "connected"

\* C8: a primary handshake that fails with an authentication failure
\* triggers no fallback and the call ends in auth_required.
C8_AuthFailureIsAuthRequired ==
    \A p \in Procs :
        ( /\ Ended(p, "connect")
          /\ proc[p].connectError # NoErr
          /\ isAuthenticationError(proc[p].connectError.msg) )
        => /\ proc[p].fallbacks = 0
           /\ StatusOf(proc[p].id) = "auth_required"

\* C9: a token failure while the headers of the fallback are re-prepared is
\* suppressed and the fallback handshake is still attempted; if that
\* handshake then fails with an authentication failure, the error recorded
\* and raised is the suppressed one: auth_required with its connect URL.
C9_SuppressedErrorReturns ==
    \A p \in Procs :
        (proc[p].op = "connect" /\ proc[p].fallbackAuthError # NoErr)
        => /\ proc[p].pc \in {"fallbackHandshake", "done"}
           /\ proc[p].transports = 2
           /\ proc[p].handshakes = 2
           /\ ( /\ proc[p].pc = "done"
                /\ proc[p].fallbackError # NoErr
                /\ isAuthenticationError(proc[p].fallbackError.msg) )
              => /\ proc[p].result = "threw"
                 /\ proc[p].error = proc[p].fallbackAuthError
                 /\ StatusOf(proc[p].id) = "auth_required"
                 /\ Record(proc[p].id).error = proc[p].fallbackAuthError.msg
                 /\ Record(proc[p].id).connectUrl
                        = proc[p].fallbackAuthError.connectUrl

C9_Witness ==
    \E p \in Procs :
        /\ Ended(p, "connect")
        /\ proc[p].fallbackAuthError # NoErr
        /\ proc[p].fallbackAuthError.connectUrl # NoUrl
        /\ isAuthenticationError(proc[p].fallbackError.msg)
        /\ ~isAuthError(proc[p].fallbackError)
        /\ StatusOf(proc[p].id) = "auth_required"

\* C10 as stated: no exception escapes connect() or disconnect().
C10_NothingEscapes ==
    \A p \in Procs :
        (Ended(p, "connect") \/ Ended(p, "disconnect"))
        => proc[p].result = "ok"

\* C10: a server.config that is not JSON makes connect() throw with
\* nothing recorded; every other failure that ends connect() (a URL that
\* is none, token retrieval, a handshake) is caught, recorded as the status
\* and message of the record, and then raised again to the caller; no
\* exception escapes disconnect().
C10_Recorded ==
    \A p \in Procs :
        /\ Ended(p, "disconnect") => proc[p].result = "ok"
        /\ ( /\ Ended(p, "connect")
             /\ \/ proc[p].primaryAuthError # NoErr
                \/ /\ proc[p].connectError # NoErr
                   /\ ~isSSEConnectionError(proc[p].connectError.msg)
                \/ proc[p].fallbackError # NoErr )
           => proc[p].result = "threw"
        /\ ( /\ Ended(p, "connect")
             /\ proc[p].result = "threw"
             /\ proc[p].config.parses )
           => /\ connections[proc[p].id] # NoObj
              /\ StatusOf(proc[p].id) \in {"auth_required", "error"}
              /\ StatusOf(proc[p].id) = "auth_required"
                     <=> isAuthError(proc[p].error)
              /\ Record(proc[p].id).error = proc[p].error.msg
              /\ Record(proc[p].id).connectUrl = proc[p].error.connectUrl

C10_ParseErrorUnrecorded ==
    \A p \in Procs :
        ( /\ Starts(p, "connect")
          /\ ~proc'[p].config.parses
          /\ StatusOf(proc'[p].id) # "connected" )
        => /\ proc'[p].pc = "done"
           /\ proc'[p].result = "threw"
           /\ proc'[p].error.msg = SyntaxErrorMsg
           /\ RegistryUnchanged
           /\ VaultUnchanged

C10_RecordedThenRaised ==
    []C10_Recorded /\ [][C10_ParseErrorUnrecorded]_vars

C10_Witness ==
    \E p \in Procs :
        /\ Ended(p, "connect")
        /\ proc[p].result = "threw"
        /\ proc[p].error = proc[p].connectError
        /\ StatusOf(proc[p].id) = "error"
        /\ Record(proc[p].id).error = proc[p].error.msg

\* C11: a connection record whose status is connected holds a client whose
\* handshake succeeded and that has not been closed.
C11_ConnectedIsLive ==
    \A id \in ServerIds :
        StatusOf(id) = "connected" => Record(id).client = "open"

\* The awaits of connect(): each is left by the step of the same name,
\* which nothing but the position of the call guards.
Awaits == {"discovering", "registering", "refreshing", "handshake",
           "fallbackRefreshing", "fallbackHandshake"}

InFlight(p) == proc[p].op = "connect" /\ proc[p].pc \notin {"idle", "done"}
Terminal == {"connected", "auth_required", "error"}

\* the awaits of connect() in the order the code reaches them
Rank(pc) ==
    CASE pc = "discovering" -> 1
      [] pc = "registering" -> 2
      [] pc = "refreshing" -> 3
      [] pc = "handshake" -> 4
      [] pc = "fallbackRefreshing" -> 5
      [] pc = "fallbackHandshake" -> 6
      [] pc = "done" -> 7

\* C12: a connect() that is awaiting discovery, registration, a token or a
\* handshake runs to its end whatever disconnect() does in the meantime:
\* it is always at an await it leaves when the awaited call settles, no
\* other call moves it, and each of its steps takes it further.  When it
\* ends, the registry holds a record for the id with the terminal status
\* of that call: connected when it returned, auth_required or error with
\* the raised message when it threw.
C12_NeverBlocked ==
    \A p \in Procs : InFlight(p) => proc[p].pc \in Awaits

C12_Advances ==
    \A p \in Procs :
        InFlight(p)
        => \/ proc'[p].pc = proc[p].pc /\ proc'[p].id = proc[p].id
           \/ /\ Rank(proc'[p].pc) > Rank(proc[p].pc)
              /\ proc'[p].op = "connect"
              /\ proc'[p].id = proc[p].id

C12_EndsWithRecord ==
    \A p \in Procs :
        (InFlight(p) /\ proc'[p].pc = "done")
        => LET id == proc[p].id IN
           /\ connections'[id] # NoObj
           /\ StatusOf(id)' \in Terminal
           /\ proc'[p].result = "ok" <=> StatusOf(id)' = "connected"
           /\ proc'[p].result = "threw"
              => Record(id)'.error = proc'[p].error.msg

C12_RunsToItsEnd ==
    []C12_NeverBlocked /\ [][C12_Advances /\ C12_EndsWithRecord]_vars

\* the connect() ended after a disconnect() had closed its client and
\* removed the record
C12_Witness ==
    \E p \in Procs :
        /\ Ended(p, "connect")
        /\ proc[p].handshakes = 1
        /\ connections[proc[p].id] # NoObj
        /\ Record(proc[p].id).client = "closed"
        /\ \A q \in Procs : proc[q].pc \in {"idle", "done"}

\* ------------------------------------------------------------------------
\* C13 (as stated): one token refresh sends at most two POSTs, the first
\* with HTTP Basic client authentication, the second with the secret in the
\* body and no Basic header, and only when a secret is configured and the
\* first response was a 401 or contained invalid_client.
\* Violated: without a client secret the first POST carries no
\* Authorization header.
PostsBounded(k) ==
    /\ Len(k.posts) <= 2
    /\ Len(k.posts) = 2 =>
           /\ k.posts[2] = [basic |-> FALSE, client_secret |-> TRUE]
           /\ k.clientSecret
           /\ k.first.kind = "response"
           /\ (k.first.status = 401 \/ k.first.invalid_client)
    /\ (k.pc = "done" /\ k.path = "refresh" /\ k.header = None) =>
           /\ k.threw
           /\ \/ Includes(k.refreshError, "Token refresh failed")
              \/ k.refreshError = FetchFailedMsg

C13_FirstPostBasic ==
    \A c \in Callers :
        /\ PostsBounded(call[c])
        /\ Len(call[c].posts) >= 1 =>
               call[c].posts[1] = [basic |-> TRUE, client_secret |-> FALSE]

\* C13 (amended): one token refresh sends at most two POSTs; the first
\* carries the Basic header exactly when a client secret is configured and
\* never the secret in its body; a second is sent, with the secret in the
\* body and no Basic header, only when a secret is configured and the first
\* response was a 401 or contained invalid_client; a refresh that does not
\* yield a token ends in the error of refreshToken, and a request is only
\* ever added by the first response.
C13_PostsOfARefresh ==
    \A c \in Callers :
        /\ PostsBounded(call[c])
        /\ Len(call[c].posts) >= 1 =>
               call[c].posts[1] = [basic |-> call[c].clientSecret,
                                   client_secret |-> FALSE]

C13_NoThirdRequest ==
    \A c \in Callers :
        (call[c].pc = "post2" /\ call'[c] # call[c]) =>
            /\ call'[c].pc = "done"
            /\ call'[c].posts = call[c].posts

C13_AtMostTwoPosts == []C13_PostsOfARefresh /\ [][C13_NoThirdRequest]_vars

\* a refresh whose two requests both failed
C13_Witness ==
    \E c \in Callers :
        /\ call[c].pc = "done"
        /\ Len(call[c].posts) = 2
        /\ call[c].threw
        /\ Includes(call[c].refreshError, "Token refresh failed")

\* ------------------------------------------------------------------------
\* c's call of getOAuth2TokenHeader starts in this step
HeaderStarts(c) == call[c].pc = "idle" /\ call'[c].pc # "idle"
\* the call that starts in this step returns the cached token's header
\* without a request
ReturnsCached(c) ==
    /\ call'[c].pc = "done"
    /\ call'[c].posts = <<>>
    /\ ~call'[c].threw
    /\ call'[c].header = oauth2Tokens[call'[c].id].access_token
    /\ VaultUnchanged
\* milliseconds of lifetime the cached token of id has left
Remaining(id) == oauth2Tokens[id].expires_at - now

\* C14 (as stated): getOAuth2TokenHeader returns the cached token's header
\* with no network call whenever the cached token has at least 60 seconds
\* left, the boundary included, and never with less than 60 seconds left.
\* Violated: with exactly 60000 ms left the cached token is not returned.
C14_BoundaryIncluded ==
    [][\A c \in Callers :
         HeaderStarts(c) =>
             LET id == call'[c].id IN
             /\ (oauth2Tokens[id].present /\ Remaining(id) >= ExpiryMarginMs)
                    => ReturnsCached(c)
             /\ (oauth2Tokens[id].present /\ Remaining(id) < ExpiryMarginMs)
                    => ~ReturnsCached(c)]_vars

\* C14 (amended): getOAuth2TokenHeader returns the cached token's header
\* with no network call exactly when the cached token has more than 60
\* seconds left; with 60000 ms or less it is never returned.
C14_BoundaryExcluded ==
    [][\A c \in Callers :
         HeaderStarts(c) =>
             LET id == call'[c].id IN
             ReturnsCached(c) <=>
                 (oauth2Tokens[id].present /\ Remaining(id) > ExpiryMarginMs)]_vars

\* a call that went on to refresh a token with exactly 60000 ms left
C14_Witness ==
    \E c \in Callers :
        /\ call[c].pc = "post1"
        /\ oauth2Tokens[call[c].id].present
        /\ Remaining(call[c].id) = ExpiryMarginMs
        /\ now > 0

\* ------------------------------------------------------------------------
\* setOAuth2Token writes the record of id in this step
Writes(id) ==
    /\ oauth2Tokens'[id] # oauth2Tokens[id]
    /\ oauth2Tokens'[id].present

\* C15: when the stored record of a server id has a refresh token R and
\* setOAuth2Token is called with a response that carries no refresh_token,
\* the record stored afterwards still has refresh token R; so a record
\* that has a refresh token is never overwritten by one that has none.
\* Violated: setOAuth2Token stores tokenData.refresh_token as it comes.
C15_RefreshTokenRetained ==
    [][\A id \in ServerIds :
         (Writes(id) /\ oauth2Tokens[id].present
                     /\ oauth2Tokens[id].refresh_token # None)
             => oauth2Tokens'[id].refresh_token # None]_vars

\* ------------------------------------------------------------------------
\* the call ended with the header of a token it refreshed
Refreshed(k) == k.pc = "done" /\ k.path = "refresh" /\ ~k.threw
\* c's refresh is answered successfully in this step
RefreshAnswered(c) ==
    call[c].pc \in {"post1", "post2"} /\ Refreshed(call'[c])

\* C17: two calls of getOAuth2TokenHeader for one server id that both find
\* an expired token with a refresh token each send their own refresh
\* request; every call that is answered successfully returns the header of
\* the token of its own response, and the answer leaves the vault with one
\* record for the id, the token of that response stored at the time of the
\* answer; so after both answers the record is that of the later one.
C17_HeaderOfOwnResponse ==
    \A c \in Callers :
        Refreshed(call[c]) =>
            /\ call[c].header = Issued(c)
            /\ call[c].tokenData.access_token = Issued(c)
            /\ Len(call[c].posts) >= 1

C17_AnswerIsStored ==
    \A c \in Callers :
        RefreshAnswered(c) =>
            /\ call'[c].id = call[c].id
            /\ oauth2Tokens'[call[c].id] =
                   [present |-> TRUE,
                    access_token |-> Issued(c),
                    expires_at |-> now + call'[c].tokenData.expires_in
                                         * MsPerSecond,
                    refresh_token |-> call'[c].tokenData.refresh_token]
            /\ \A d \in Callers \ {c} : call'[d] = call[d]

C17_ConcurrentRefresh ==
    []C17_HeaderOfOwnResponse /\ [][C17_AnswerIsStored]_vars

\* two calls that overlapped, both answered successfully, the vault holding
\* the token of one of the two responses
C17_Witness ==
    /\ \A c \in Callers :
           Refreshed(call[c]) /\ call[c].id = ServerOrder[1]
    /\ \E c \in Callers : call[c].concurrent
    /\ \E c \in Callers :
           /\ oauth2Tokens[ServerOrder[1]].present
           /\ oauth2Tokens[ServerOrder[1]].access_token = call[c].header
           /\ oauth2Tokens[ServerOrder[1]].refresh_token
                  = call[c].tokenData.refresh_token

\* ------------------------------------------------------------------------
\* C16: the token record of a server id is removed only by disconnect(id):
\* in every step in which a token record goes away, a disconnect of that
\* id ends; connect, refresh, listTools, callTool, disconnectAll,
\* registerConnectionState, set-token, the operations on another id and the
\* passing of time leave every existing record in the vault.
C16_OnlyDisconnectRemoves ==
    [][\A id \in ServerIds :
         (oauth2Tokens[id].present /\ ~oauth2Tokens'[id].present) =>
             \E p \in Procs :
                 /\ proc[p].pc # "done"
                 /\ proc'[p].pc = "done"
                 /\ proc'[p].op = "disconnect"
                 /\ proc'[p].id = id]_vars

\* disconnectAll has closed a connection and returned, time has passed
\* beyond the expiry of the tokens, and both token records are still there
C16_Witness ==
    /\ \E p \in Procs : Ended(p, "disconnectAll") /\ proc[p].requests >= 1
    /\ \A id \in ServerIds :
           /\ oauth2Tokens[id].present
           /\ oauth2Tokens[id].expires_at <= now
           /\ connections[id] = NoObj

\* ------------------------------------------------------------------------
\* The scopes a source holds
ScopesOf(x) ==
    IF ~x.defined THEN <<>>
    ELSE IF x.isArray THEN x.list
    ELSE filterBoolean(split(x.text))
\* The sources of resolveScopes in their order of priority
Sources(input) ==
    <<input.userScope, input.headerScope, input.prmScopes,
      input.registrationScopes, input.asmScopes>>
\* The scopes of the first source that holds any, else the fallback
FirstNonEmpty(input) ==
    LET src == Sources(input)
        holding == {i \in 1 .. Len(src) : ScopesOf(src[i]) # <<>>}
    IN IF holding = {} THEN FallbackScopes
       ELSE ScopesOf(src[CHOOSE i \in holding : \A j \in holding : i <= j])

\* C18: resolveScopes returns the scopes of the first non-empty source in
\* the order user-configured scope, WWW-Authenticate scope hint, PRM
\* scopes_supported, registration response scope, ASM scopes_supported, and
\* otherwise openid, email, profile.
\* Violated: a user scope that is an empty list, or a user or header scope
\* made of blanks, is taken and the scopes returned are none.
C18_FirstNonEmptySource ==
    (eval.f = "resolveScopes" /\ eval.done) =>
        eval.result = FirstNonEmpty(eval.input)

\* ------------------------------------------------------------------------
\* The user-configured scope: the string when one is set, else the list
UserSource(oauth2) ==
    IF ScopesOf(oauth2.scope) # <<>> THEN oauth2.scope ELSE oauth2.scopes

\* C19: the scope connect() places in the connect URL follows the priority
\* user-configured scope (string or list), WWW-Authenticate scope, PRM
\* scopes_supported, registration response scope, ASM scopes_supported,
\* openid email profile; discovered sources count when the discovery is
\* applied.
\* Violated: an applied discovery overwrites the configured list of
\* scopes, the scope of the registration response is never read, and with
\* nothing configured or discovered the scope is openid profile
\* offline_access.
C19_ConnectUrlScope ==
    (eval.f = "connectScope" /\ eval.done) =>
        LET d == eval.input.discoveredAuth
            off(x) == IF d.applied THEN x ELSE NoScope
        IN filterBoolean(split(eval.result)) =
               FirstNonEmpty(
                   [userScope |-> UserSource(eval.input.oauth2),
                    headerScope |-> off(d.headerScope),
                    prmScopes |-> off(d.prmScopes),
                    registrationScopes |->
                        off(List(ScopesOf(eval.input.registrationScope))),
                    asmScopes |-> off(d.asmScopes)])


\* The requests of one kind among the requests of a discovery, in order
RequestsOf(kind) == SelectSeq(eval.requests, LAMBDA r : r.kind = kind)

\* The authorization servers to ask according to the document found: those
\* it names, the resource origin when it names none
Candidates(prm) ==
    IF prm.authorization_servers # <<>> THEN prm.authorization_servers
    ELSE IF prm.authorization_server # None
         THEN <<prm.authorization_server>>
         ELSE <<"origin">>

\* C20: when the discovery used by connect() has found the
\* Protected-Resource-Metadata and is over, its requests for
\* Authorization-Server-Metadata went to the candidate authorization servers
\* in order (the resource origin when the document names none), every one
\* before the last unanswered; if none was answered all candidates were
\* asked and OpenID Connect discovery was tried; and the endpoints returned
\* are those of the first document found.
C20_EndpointCascade ==
    (eval.f = "discover" /\ eval.pc = "done" /\ eval.prm.found) =>
        LET asm == RequestsOf("asm")
            cands == Candidates(eval.prm)
            n == Len(asm)
        IN /\ n >= 1 /\ n <= Len(cands)
           /\ \A i \in 1 .. n : asm[i].target = cands[i]
           /\ \A i \in 1 .. n - 1 : ~asm[i].ok
           /\ ~asm[n].ok => /\ n = Len(cands)
                            /\ RequestsOf("oidc") # <<>>
           /\ asm[n].ok => /\ eval.result.kind = "result"
                           /\ eval.result.tokenUrl = <<asm[n].target, "token">>
                           /\ eval.result.authUrl =
                                  <<asm[n].target, "authorization">>
                           /\ eval.result.registrationUrl =
                                  <<asm[n].target, "registration">>

\* C21: when the probe answered 401 and no metadata document could be
\* fetched, the discovery that is over returned a result, not null, with
\* requiresAuth true and the scopes inferred from the probe.
C21_PartialResult ==
    (/\ eval.f = "discover" /\ eval.pc = "done"
     /\ eval.probeRequiresAuth
     /\ \A i \in 2 .. Len(eval.requests) : ~eval.requests[i].ok) =>
        /\ eval.result.kind = "result"
        /\ eval.result.requiresAuth
        /\ eval.result.scopes =
               resolveScopes([userScope |-> NoScope,
                              headerScope |-> eval.headerScope,
                              prmScopes |-> NoScope,
                              registrationScopes |-> NoScope,
                              asmScopes |-> NoScope])

\* C22: the step in which the probe is answered with status 200 ends the
\* discovery with null and the probe as its only request, and a discovery
\* that is over makes no further request.
C22_ProbeOkEndsDiscovery ==
    [][(\A probe \in ProbeOutcomes :
            (probe.kind = "response" /\ probe.status = 200
             /\ ProbeDone(probe)) =>
                /\ eval'.pc = "done"
                /\ eval'.result.kind = "null"
                /\ Len(eval'.requests) = 1
                /\ eval'.requests[1].kind = "probe")
       /\ ((eval.f = "discover" /\ eval.pc = "done") =>
               eval'.requests = eval.requests)]_vars

\* A discovery is over with null after a probe that was answered, did not
\* ask for authorization, and was the only request
C22_Witness ==
    /\ eval.f = "discover" /\ eval.pc = "done"
    /\ eval.result.kind = "null"
    /\ ~eval.probeRequiresAuth
    /\ eval.requests = <<[kind |-> "probe", target |-> "resource",
                          ok |-> TRUE]>>

\* C23: discoverOAuthConfiguration never raises: a discovery that is over
\* returned a result or null; and the step in which the probe is rejected
\* with a DNS, connect or timeout failure ends the discovery with null and
\* the probe as its only request.
C23_NeverRaises ==
    /\ []((eval.f = "discover" /\ eval.pc = "done") =>
              eval.result.kind \in {"null", "result"})
    /\ [][\A probe \in ProbeOutcomes :
              (/\ probe.kind = "rejected"
               /\ probe.code \in {"ENOTFOUND", "ECONNREFUSED", "ETIMEDOUT"}
               /\ ProbeDone(probe)) =>
                  /\ eval'.pc = "done"
                  /\ eval'.result.kind = "null"
                  /\ Len(eval'.requests) = 1]_vars

\* C24: registerDynamicClient returns null on every failure and connect()
\* goes on from it: in the step in which the registration ends in a
\* rejection, a status that is not ok or a body that cannot be used, the
\* call keeps no client id and does not end with an error that is recorded
\* as Error; and a call starts a registration only as the continuation of
\* its discovery, for a discovery that names a registration endpoint and a
\* config without client id, and starts its discovery only when it begins,
\* hence registers at most once.
C24_RegistrationNonFatal ==
    [][\A p \in Procs :
          /\ \A outcome \in RegistrationOutcomes \ {"registered"} :
                 RegistrationDone(p, registerDynamicClient(outcome)) =>
                     /\ registerDynamicClient(outcome) = None
                     /\ proc'[p].config.clientId = None
                     /\ ~(/\ proc'[p].pc = "done"
                          /\ proc'[p].result = "threw"
                          /\ ~isAuthError(proc'[p].error))
          /\ (proc[p].pc # "registering" /\ proc'[p].pc = "registering") =>
                 /\ proc[p].pc = "discovering"
                 /\ proc[p].config.clientId = None
                 /\ \E d \in Discoveries :
                        d.registrationUrl # None /\ DiscoveryDone(p, d)
          /\ (proc[p].pc # "discovering" /\ proc'[p].pc = "discovering") =>
                 proc[p].pc = "idle"]_vars

\* A connect() that made two requests, its discovery and its registration,
\* and no handshake has ended asking for authorization with no client id:
\* no token is stored, so no refresh was among the requests
C24_Witness ==
    \E p \in Procs :
        /\ proc[p].op = "connect" /\ proc[p].pc = "done"
        /\ proc[p].result = "threw" /\ isAuthError(proc[p].error)
        /\ proc[p].requests = 2 /\ proc[p].handshakes = 0
        /\ proc[p].config.clientId = None
        /\ ~oauth2Tokens[proc[p].id].present

\* The callbacks that were given the state of an authorization, unchanged
GivenBack(k, a) == eval.callbacks[k].state = eval.issued[a].state

\* C25: a state decoded at most ten minutes after encodeState made it
\* gives back the verifier and the server id it was made from.
C25_RoundTrip ==
    eval.f = "pkce" =>
        \A k \in 1 .. Len(eval.callbacks), a \in 1 .. Len(eval.issued) :
            (/\ GivenBack(k, a)
             /\ eval.callbacks[k].at - eval.issued[a].at <= TEN_MINUTES) =>
                /\ eval.callbacks[k].via = "decoded"
                /\ eval.callbacks[k].verifier = eval.issued[a].verifier
                /\ eval.callbacks[k].serverId = eval.issued[a].serverId

\* A state was decoded ten minutes to the millisecond after it was made
C25_Witness ==
    /\ eval.f = "pkce"
    /\ \E k \in 1 .. Len(eval.callbacks), a \in 1 .. Len(eval.issued) :
           /\ GivenBack(k, a)
           /\ eval.callbacks[k].at - eval.issued[a].at = TEN_MINUTES
           /\ eval.callbacks[k].via = "decoded"
           /\ eval.callbacks[k].verifier = eval.issued[a].verifier

\* The callback was given a state within ten minutes of its making
InWindow(k, a) == eval.callbacks[k].at - eval.issued[a].at <= TEN_MINUTES

\* C26 as stated: decodeState gives null for every string that is not,
\* character for character, a state that encodeState made at most ten
\* minutes earlier.
C26_NullUnlessUnmodified ==
    eval.f = "pkce" =>
        \A k \in 1 .. Len(eval.callbacks) :
            eval.callbacks[k].via = "decoded" =>
                \E a \in 1 .. Len(eval.issued) :
                    GivenBack(k, a) /\ InWindow(k, a)

\* C26, amended: decodeState gives null for every string whose bytes are
\* not those of a state that encodeState made at most ten minutes earlier:
\* what it decodes has the bytes of such a state, and the verifier and the
\* server id of that state.
C26_NullUnlessAuthentic ==
    eval.f = "pkce" =>
        \A k \in 1 .. Len(eval.callbacks) :
            eval.callbacks[k].via = "decoded" =>
                \E a \in 1 .. Len(eval.issued) :
                    /\ base64URLDecode(eval.callbacks[k].state)
                           = base64URLDecode(eval.issued[a].state)
                    /\ InWindow(k, a)
                    /\ eval.callbacks[k].verifier = eval.issued[a].verifier
                    /\ eval.callbacks[k].serverId = eval.issued[a].serverId

\* Within the ten minutes, one callback was given a state with a byte of
\* its tag changed and got nothing, another the state in its other
\* spelling and got it decoded
C26_Witness ==
    /\ eval.f = "pkce"
    /\ \E k, m \in 1 .. Len(eval.callbacks), a \in 1 .. Len(eval.issued) :
           /\ InWindow(k, a) /\ InWindow(m, a)
           /\ eval.callbacks[k].state
                  = alterByte(eval.issued[a].state, IvLength + 1)
           /\ eval.callbacks[k].via = "none"
           /\ eval.callbacks[m].state = respell(eval.issued[a].state)
           /\ eval.callbacks[m].state # eval.issued[a].state
           /\ eval.callbacks[m].via = "decoded"

\* C27: a callback relays a verifier only for a state that is authentic
\* and at most ten minutes old, on whichever instance it arrives.
C27_RelaysOnlyFreshAuthentic ==
    eval.f = "pkce" =>
        \A k \in 1 .. Len(eval.callbacks) :
            eval.callbacks[k].via # "none" =>
                \E a \in 1 .. Len(eval.issued) :
                    /\ base64URLDecode(eval.callbacks[k].state)
                           = base64URLDecode(eval.issued[a].state)
                    /\ InWindow(k, a)

\* C28: of the callbacks that were given one and the same issued state, at
\* most one was relayed the verifier.
C28_SingleUse ==
    eval.f = "pkce" =>
        \A k, m \in 1 .. Len(eval.callbacks), a \in 1 .. Len(eval.issued) :
            (/\ k # m
             /\ GivenBack(k, a) /\ GivenBack(m, a)
             /\ eval.callbacks[k].via # "none") =>
                eval.callbacks[m].via = "none"


\* ------------------------------------------------------------------------
\* The ids of body.servers of the request being served
Listed == {eval.servers[k] : k \in 1 .. Len(eval.servers)}
\* What the registry holds for id: whether it has a record, and the record
Tracked(id) ==
    [has |-> connections[id] # NoObj,
     record |-> IF connections[id] # NoObj THEN heap[connections[id]]
                ELSE FreeObj]
\* Nothing of id changes in this step: not its record, not its token
Untouched(id) ==
    /\ Tracked(id)' = Tracked(id)
    /\ oauth2Tokens'[id] = oauth2Tokens[id]
\* id has neither a record nor a token
Removed(id) == connections[id] = NoObj /\ ~oauth2Tokens[id].present

\* C29: POST /connect with skipDisconnect = true never disconnects, closes
\* or alters the connection record or the token record of a server id that
\* is not listed in the request; without skipDisconnect every tracked id
\* that is not listed is disconnected (record and token removed) before
\* any connect starts, and listed ids that are already connected are left
\* untouched.
C29_SkipDisconnectFrame ==
    /\ [][(eval.pc # "idle" /\ eval.skipDisconnect)
             => /\ \A id \in ServerIds \ Listed : Untouched(id)
                /\ \A p \in Procs : proc'[p].op # "disconnect"]_vars
    /\ [][(eval.pc = "disconnecting" /\ eval'.pc # "disconnecting")
             => \A id \in eval.currentIds \ Listed : Removed(id)']_vars
    /\ [](eval.pc \in {"starting", "awaiting"} /\ ~eval.skipDisconnect
             => \A id \in eval.currentIds \ Listed : Removed(id))
    /\ [][eval.pc # "idle"
             => \A id \in Listed :
                    StatusOf(id) = "connected" => Untouched(id)]_vars

\* a request with skipDisconnect whose connect() has ended while a server
\* that is not listed is still connected, its client open and its token in
\* the vault
C29_Witness ==
    /\ Serving("awaiting")
    /\ eval.skipDisconnect
    /\ \E p \in Procs : proc[p].pc = "done" /\ proc[p].op = "connect"
    /\ \E id \in ServerIds \ Listed :
           /\ StatusOf(id) = "connected"
           /\ Record(id).client = "open"
           /\ oauth2Tokens[id].present

\* a request without skipDisconnect about to call connect() for a listed
\* server that is connected, after the disconnect of a tracked one that is
\* not listed
C29_WitnessDisconnected ==
    /\ Serving("starting")
    /\ ~eval.skipDisconnect
    /\ eval.next = 1
    /\ eval.currentIds \ Listed # {}
    /\ \E id \in Listed : StatusOf(id) = "connected"


\* ------------------------------------------------------------------------
\* The primary handshake of p's connect() begins in this step, the header
\* step (coordinator.ts:126-134) just behind it
BeginsHandshake(p) ==
    /\ proc[p].pc \in {"idle", "discovering"}
    /\ proc'[p].op = "connect"
    /\ proc'[p].pc = "handshake"
\* server.config as connect() parsed it, before the discovery phase
ParsedConfig(p) ==
    IF proc[p].pc = "idle" THEN proc'[p].config ELSE proc[p].config
\* headers['Authorization'] of the primary transport is set: the header
\* step was entered and getOAuth2TokenHeader returned
HeaderAttached(me) ==
    /\ me.config.has
    /\ me.config.tokenUrl # None
    /\ me.primaryAuthError = NoErr
\* the stored token of id has more than 60 seconds left
Reusable(id) ==
    /\ oauth2Tokens[id].present
    /\ oauth2Tokens[id].expires_at - now > ExpiryMarginMs

\* C30: from status auth_required, once a token with more than 60 seconds
\* of validity has been stored for the server and its config has a token
\* endpoint, a new connect() attaches that token without any refresh or
\* authorization request and, if the handshake succeeds, ends connected
\* with the record's previous error message and connect URL cleared.
\* Violated: the discovery phase overwrites config.oauth2.tokenUrl with the
\* tokenUrl of the discovery result, which is undefined when no
\* authorization server metadata was found, and the header step is skipped.
C30_RetryAttachesToken ==
    [][\A p \in Procs :
         (/\ BeginsHandshake(p)
          /\ StatusOf(proc'[p].id) = "auth_required"
          /\ Reusable(proc'[p].id)
          /\ ParsedConfig(p).has
          /\ ParsedConfig(p).tokenUrl # None)
             => HeaderAttached(proc'[p])]_vars

\* the retry, when the token endpoint is still in the config at the header
\* step: the token is attached with no refresh, and a handshake that
\* succeeds leaves a connected record with no error and no connect URL
C30_RetryWithEndpointKept ==
    /\ [][\A p \in Procs :
            (/\ proc[p].pc \in {"idle", "discovering", "registering"}
             /\ proc'[p].op = "connect"
             /\ proc'[p].pc \notin {"idle", "discovering", "registering"}
             /\ proc'[p].result # "threw"
             /\ Reusable(proc'[p].id)
             /\ proc'[p].config.has
             /\ proc'[p].config.tokenUrl # None)
                => /\ proc'[p].pc \in {"handshake", "done"}
                   /\ HeaderAttached(proc'[p])]_vars
    /\ [][\A p \in Procs :
            (/\ proc[p].pc \in {"handshake", "fallbackHandshake"}
             /\ proc'[p].pc = "done"
             /\ proc'[p].result = "ok")
                => /\ StatusOf(proc[p].id)' = "connected"
                   /\ Record(proc[p].id)'.error = NoMsg
                   /\ Record(proc[p].id)'.connectUrl = NoUrl]_vars

\* a connect() with a reusable token in the vault that ended connected,
\* its handshake made without the token
C30_Reached ==
    \E p \in Procs :
        /\ Ended(p, "connect")
        /\ proc[p].result = "ok"
        /\ proc[p].handshakes = 1
        /\ proc[p].config.has
        /\ proc[p].config.tokenUrl = None
        /\ proc[p].config.clientId = None
        /\ Reusable(proc[p].id)
        /\ StatusOf(proc[p].id) = "connected"


Queries(p) ==
    /\ proc'[p].op = "listTools"
    /\ proc'[p].pc = "listing"
    /\ proc'[p].requests # proc[p].requests

C32_WitnessSkipped ==
    \E p \in Procs, id \in ServerIds :
        /\ Ended(p, "listTools")
        /\ proc[p].tools # {}
        /\ StatusOf(id) \in {"error", "auth_required"}
        /\ id \notin proc[p].queried


\* ------------------------------------------------------------------------
\* No disconnect(id) or disconnectAll() is under way before or after this
\* step
NoDisconnect ==
    \A p \in Procs :
        /\ proc[p].op \notin {"disconnect", "disconnectAll"}
        /\ proc'[p].op \notin {"disconnect", "disconnectAll"}

\* C33: once a connect(id) call has set the record of id to connected,
\* getConnectionStatus(id) stays connected until disconnect(id) or
\* disconnectAll() is called, under any interleaving with other
\* connect(id) calls for the same id that were already in flight: a later
\* failure of such a call never replaces the connected record by error or
\* auth_required.
\* Violated: the call that fails puts its own record, in error, into the
\* Map, or registerConnectionState rewrites the status of the record.
C33_ConnectedStays ==
    [][\A id \in ServerIds :
         (NoDisconnect /\ StatusOf(id) = "connected")
             => StatusOf(id)' = "connected"]_vars


\* ------------------------------------------------------------------------
\* C34: the discovery phase of connect() never removes a token endpoint or
\* authorization endpoint that the server's OAuth config already had: if
\* tokenUrl (or authUrl) was configured before connect(), it is still
\* defined when the Authorization header is prepared, also when discovery
\* is applied with a result that carries no such endpoint.
\* Violated: a result that is applied overwrites both with its own
\* endpoints, defined or not.
C34_DiscoveryKeepsEndpoints ==
    [][\A p \in Procs :
         (proc[p].op = "connect" /\ proc[p].pc = "discovering"
              /\ proc'[p].pc # "discovering")
             => /\ (proc[p].config.tokenUrl # None
                        => proc'[p].config.tokenUrl # None)
                /\ (proc[p].config.authUrl # None
                        => proc'[p].config.authUrl # None)]_vars


\* ------------------------------------------------------------------------
\* The clients that are open.  An object that neither the registry nor a
\* call refers to is no longer in the heap, so an open client that leaves
\* this set without a close() has become unreachable.
OpenClients == {o \in ObjIds : heap[o].client = "open"}
\* p's client.connect() resolves in this step and its client is open from
\* now on
Shakes(p) ==
    /\ proc[p].pc \in {"handshake", "fallbackHandshake"}
    /\ proc'[p].pc = "done"
    /\ proc'[p].result = "ok"
    /\ heap[proc[p].obj].client = "connecting"

\* C35: every client whose handshake succeeded is, at every moment until
\* it is closed, the client held by the registry record of its server id:
\* no connected client becomes unreachable from the registry while still
\* open, also under concurrent connect() calls for the same id, so
\* disconnect(id) always closes every open client of id.
\* Violated: a second connect() of the id that was awaiting its handshake
\* puts its own connection object into the Map over the connected one.
C35_OpenClientsStayRegistered ==
    [][NoDisconnect
          => Cardinality(OpenClients')
                 >= Cardinality(OpenClients)
                        + Cardinality({p \in Procs : Shakes(p)})]_vars


\* ------------------------------------------------------------------------
\* c's refresh fails in this step: refreshToken threw and the call ends
\* with the authorization error
RefreshFails(c) ==
    /\ call[c].pc \in {"post1", "post2"}
    /\ call'[c].pc = "done"
    /\ call'[c].threw

\* C36: a failed token refresh leaves the token vault unchanged: when
\* getOAuth2TokenHeader attempts a refresh and it fails (rejected, network
\* failure, or the single body-secret retry also rejected), the stored
\* record for that server id keeps the same access token, expiry and
\* refresh token as before the call, and the call fails with the
\* authorization-required error.  (No step the call takes, from the test
\* of the cached record to the failure, writes the vault.)
C36_FailedRefreshKeepsVault ==
    /\ [][\A c \in Callers :
             RefreshFails(c)
                 => /\ oauth2Tokens' = oauth2Tokens
                    /\ call'[c].header = None
                    /\ call'[c].refreshError
                           \in {TokenRefreshFailedMsg, FetchFailedMsg}]_vars
    /\ [][\A c \in Callers :
             (call'[c] # call[c] /\ call'[c].pc \in {"post1", "post2"})
                 => oauth2Tokens' = oauth2Tokens]_vars
    /\ [][\A c \in Callers :
             (call[c].pc \in {"post1", "post2"} /\ call'[c].pc = "done")
                 => (RefreshFails(c) <=> ~Refreshed(call'[c]))]_vars

\* a call whose refresh failed after the retry with the secret in the body,
\* the record it tried to refresh still in the vault
C36_Witness ==
    \E c \in Callers :
        /\ call[c].pc = "done"
        /\ call[c].path = "refresh"
        /\ call[c].threw
        /\ Len(call[c].posts) = 2
        /\ oauth2Tokens[call[c].id].present
        /\ oauth2Tokens[call[c].id].refresh_token = call[c].refreshToken

\* The stateless transport of a connect() under way has been created
FallbackTransport ==
    /\ eval.f = "headers"
    /\ eval.transport # None
    /\ proc[ProcOrder[1]].pc = "fallbackHandshake"

\* the Authorization header the stateless transport sends
Carried == eval.authorization[eval.transport]

\* C37 as stated: the Authorization header carried by the stateless
\* fallback transport is exactly the value returned by the
\* getOAuth2TokenHeader call made after the primary handshake failed, and
\* when that call fails the transport carries no Authorization header.
C37_FallbackHeaderRederived ==
    FallbackTransport =>
        /\ (eval.asked /\ ~eval.threw => Carried = eval.returned)
        /\ (eval.threw => Carried = None)

\* C37 where config.headers is undefined: both attempts get an object of
\* their own and the fallback carries what its own call returned, or
\* nothing
C37_FreshObjectsRederived ==
    FallbackTransport /\ ~eval.defined =>
        /\ (eval.asked /\ ~eval.threw => Carried = eval.returned)
        /\ (~eval.asked \/ eval.threw => Carried = None)

\* C37: a fallback whose call failed after the primary attempt had
\* obtained a header
C37_Reached ==
    /\ FallbackTransport
    /\ eval.threw
    /\ eval.authorization[eval.headers] # None

\* The set of the server ids of a list of token entries
Entries(tokens) == {tokens[i] : i \in 1 .. Len(tokens)}

\* C38 as stated: on load with persisted OAuth tokens, every persisted
\* token has been sent to /api/mcp/set-token and answered before the
\* first connect request is issued.
C38_ConnectAfterRestore ==
    ( /\ eval.f = "load"
      /\ eval.persisted # <<>>
      /\ eval.connects > 0 )
    => Entries(eval.persisted) \subseteq eval.answeredAtConnect

\* C38: what the flag does ensure: no connect request is issued by the
\* provider before restoreTokens has been started
C38_ConnectAfterRestoreStarted ==
    eval.f = "load" /\ eval.connects > 0 => eval.tokensRestoredRef

\* C38: the servers were connected on load while tokens were persisted
C38_Reached ==
    /\ eval.f = "load"
    /\ eval.persisted # <<>>
    /\ eval.connects > 0
    /\ eval.storage.servers # {}

\* The invocations of fn that failed, and the k-th wait as C39 gives it
Failures == {i \in 1 .. Len(eval.calls) : ~eval.calls[i].ok}
BackoffWait(k) ==
    eval.options.delayMs * pow(eval.options.backoffMultiplier, k - 1)

\* fn is invoked at most maxAttempts times; a success is the last
\* invocation and its value is returned
AttemptsBounded ==
    /\ eval.invoked <= eval.options.maxAttempts
    /\ \A i \in 1 .. Len(eval.calls) :
           eval.calls[i].ok =>
               /\ i = Len(eval.calls) /\ eval.invoked = i
               /\ eval.outcome = "resolved"
               /\ eval.value = eval.calls[i].with
    /\ eval.outcome = "resolved" =>
           Len(eval.calls) > 0 /\ eval.calls[Len(eval.calls)].ok

\* the k-th failure is followed by a wait of delayMs * multiplier^(k-1)
\* exactly when another attempt follows, and every further attempt comes
\* after its wait
WaitsBetweenAttempts ==
    /\ Len(eval.waits) <= Cardinality(Failures)
    /\ \A k \in Failures :
           (k < eval.options.maxAttempts) <=> (k <= Len(eval.waits))
    /\ \A k \in 1 .. Len(eval.waits) : eval.waits[k] = BackoffWait(k)
    /\ eval.pc = "calling" => eval.invoked = Len(eval.waits) + 1
    /\ eval.pc = "waiting" => eval.invoked = Len(eval.waits)

\* a rejection comes after maxAttempts failures and no success
RejectsAfterAll ==
    eval.outcome = "rejected" =>
        /\ Len(eval.calls) = eval.options.maxAttempts
        /\ Cardinality(Failures) = eval.options.maxAttempts

\* C39 as stated: retry invokes fn at most maxAttempts times, stops at the
\* first success and returns its value, waits
\* delayMs * backoffMultiplier^(k-1) after the k-th failure only when
\* another attempt follows, after maxAttempts failures rejects with the
\* error of the last attempt, and terminates when fn does.
C39_RetryBoundedBackoff ==
    /\ [](eval.f = "retry" =>
            /\ AttemptsBounded
            /\ WaitsBetweenAttempts
            /\ RejectsAfterAll
            /\ (eval.outcome = "rejected" =>
                   /\ Len(eval.calls) > 0
                   /\ eval.error = eval.calls[Len(eval.calls)].with))
    /\ <>(eval.pc = "done")

\* C39 amended: the same, where the rejection carries the error of the
\* last attempt when there was an attempt; with maxAttempts = 0 fn is
\* never invoked and retry rejects with undefined.
C39_RetryBoundedBackoffFromOne ==
    /\ [](eval.f = "retry" =>
            /\ AttemptsBounded
            /\ WaitsBetweenAttempts
            /\ RejectsAfterAll
            /\ (eval.outcome = "rejected" =>
                   eval.error = IF eval.options.maxAttempts = 0 THEN None
                                ELSE eval.calls[Len(eval.calls)].with))
    /\ <>(eval.pc = "done")

\* C39: three failures with different errors and two growing waits
C39_Witness ==
    /\ eval.f = "retry" /\ eval.outcome = "rejected"
    /\ eval.invoked = 3
    /\ eval.waits = <<10, 30>>
    /\ eval.calls[1].with # eval.calls[3].with
    /\ eval.error = eval.calls[3].with

\* C39: a success at the second attempt ends the call
C39_WitnessResolved ==
    /\ eval.f = "retry" /\ eval.outcome = "resolved"
    /\ eval.options.maxAttempts = 3 /\ eval.invoked = 2
    /\ Len(eval.waits) = 1

\* The keys that have a value in the map the calls describe
Stored == {k \in StorageKeys : eval.map[k] # NoItem}

\* get, has and size answer as the key-value map does
AnswersAsMap ==
    /\ \A k \in StorageKeys :
           /\ storageGet(eval.items, k) =
                  IF k \in Stored THEN eval.map[k].set ELSE Null
           /\ storageHas(eval.items, k) <=> k \in Stored
    /\ storageSize(eval.items) = Cardinality(Stored)

\* C40 as stated: over any sequence of set, remove and clear, get(k)
\* returns the value of the latest set(k, v) not followed by remove(k) or
\* clear() and null otherwise, has(k) is true exactly for those keys,
\* size() is their number, and remove of an absent key does nothing and
\* does not raise.
C40_BehavesAsMap ==
    eval.f = "storage" =>
        /\ AnswersAsMap
        /\ (eval.last.op = "remove" => ~eval.last.threw)

\* C40 for values that JSON carries (null, finite numbers, strings, plain
\* objects): the service answers as the map does
C40_JsonValuesAsMap ==
    ( /\ eval.f = "storage"
      /\ \A k \in Stored :
             eval.map[k].set \in {Null, FortyTwo, Str("dark"), Str("42"),
                                  John} )
    => AnswersAsMap

\* C40: has, size, and the silent remove, whatever the values
C40_KeysAsMap ==
    /\ [](eval.f = "storage" =>
            /\ \A k \in StorageKeys :
                   storageHas(eval.items, k) <=> k \in Stored
            /\ storageSize(eval.items) = Cardinality(Stored)
            /\ (eval.last.op = "remove" => ~eval.last.threw))
    /\ [][\A k \in StorageKeys :
              ( /\ eval.f = "storage" /\ eval'.last.op = "remove"
                /\ eval'.last.key = k /\ k \notin Stored )
              => eval'.items = eval.items]_vars

\* C40: a value was set that does not come back
C40_Reached ==
    /\ eval.f = "storage"
    /\ eval.last = [op |-> "set", key |-> "user", threw |-> FALSE]
    /\ "user" \in Stored
    /\ eval.map["user"].set = Undefined
    /\ storageGet(eval.items, "user") = Str("undefined")

====
